---- MODULE Spec2Model ----
(***************************************************************************)
(* soundcraft/setup.py: the sudo script accumulator, the installable file  *)
(* classes, the sorted batch installer (FileSetup), the subsystems (udev   *)
(* rules, obsolete installs, D-Bus service, XDG desktop files), the        *)
(* orchestrator and main(), over a small POSIX-like filesystem; and the    *)
(* written script as /bin/sh executes it.                                  *)
(*                                                                         *)
(* Python str values are TLA+ strings; Len, SubSeq and \o act on them as   *)
(* on sequences of characters.                                             *)
(***************************************************************************)
EXTENDS Integers, Sequences, FiniteSets, TLC

VARIABLES
    sudo_commands,  \* SUDO_SCRIPT.sudo_commands: sequence of ScriptCommand
    files,          \* FileSetup.files: sequence of AbstractFile records
    fs,             \* the filesystem: path -> node
    chroot,         \* get_dirs().chroot: None or a prefix string
    last,           \* the operation that ran last, with what it was given
    calls,          \* the _install/_uninstall calls of the latest install()
                    \* and of the latest uninstall(), in call order
    hist,           \* the setup methods run so far, in order
    snap,           \* the filesystem as the first setup method left it
    exc,            \* the exception that ended the run, or None
    arg,            \* inputs of the pure function under study
    ret,            \* its result; the exit status once main() has ended
    everything,     \* SetupEverything.everything: sequence of subsystems
    log,            \* the calls made on subsystems and services, in order
    out,            \* the text written to the script file, None before
    pc,             \* where main() or a handler with a loop stands
    sources,        \* the package's data files, as findDataFiles finds them
    timeout         \* the local of SetupDBus.install(): retries left

mainVars == <<everything, log, out, pc, sources, timeout>>

vars == <<sudo_commands, files, fs, chroot, last, calls, hist, snap, exc, arg,
          ret, everything, log, out, pc, sources, timeout>>

None == "None"

\* the value of a local that has not been assigned yet
NoTimeout == 0 - 1

\* the orchestrator's part of the state before main() has done anything
MainIdle ==
    /\ everything = <<>>
    /\ log = <<>>
    /\ out = None
    /\ pc = "idle"
    /\ sources = <<>>
    /\ timeout = NoTimeout

(***************************************************************************)
(* Python str helpers                                                      *)
(***************************************************************************)

Min(a, b) == IF a < b THEN a ELSE b

\* s[i-1:i] in Python terms (1-based here): "" beyond the ends
Chr(s, i) == IF i >= 1 /\ i <= Len(s) THEN SubSeq(s, i, i) ELSE ""

\* runs of consecutive code points: <<code of the first character, the run>>
CodeRuns ==
    << <<32, " !">>, <<35, "#$%&">>,
       <<40, "()*+,-./0123456789:;<=>?@ABCDEFGHIJKLMNOPQRSTUVWXYZ[">>,
       <<93, "]^_">>, <<97, "abcdefghijklmnopqrstuvwxyz{|}~">> >>

\* the code point of every character of CodeRuns (tabulated once)
CodePoint ==
    LET at(r, i) == Chr(CodeRuns[r][2], i)
        chars == UNION { { at(r, i) : i \in 1..Len(CodeRuns[r][2]) } :
                         r \in 1..Len(CodeRuns) }
    IN  [c \in chars |->
            LET r == CHOOSE r \in 1..Len(CodeRuns) :
                         \E i \in 1..Len(CodeRuns[r][2]) : at(r, i) = c
                i == CHOOSE i \in 1..Len(CodeRuns[r][2]) : at(r, i) = c
            IN  CodeRuns[r][1] + i - 1]

\* ord(c)
Ord(c) == IF c = "\n" THEN 10 ELSE CodePoint[c]

\* c.isdigit() for ASCII text; this is what \d matches and what int() reads
IsDigit(c) == c \in {"0", "1", "2", "3", "4", "5", "6", "7", "8", "9"}

\* Python's a < b on str: lexicographic by code point, a proper prefix is less
StrLess(a, b) ==
    \E i \in 1..(Min(Len(a), Len(b)) + 1) :
        /\ SubSeq(a, 1, i - 1) = SubSeq(b, 1, i - 1)
        /\ \/ i > Len(a) /\ i <= Len(b)
           \/ i <= Len(a) /\ i <= Len(b) /\ Ord(Chr(a, i)) < Ord(Chr(b, i))

\* Python's a < b on a tuple of str
TupleLess(a, b) ==
    \E i \in 1..(Min(Len(a), Len(b)) + 1) :
        /\ SubSeq(a, 1, i - 1) = SubSeq(b, 1, i - 1)
        /\ \/ i > Len(a) /\ i <= Len(b)
           \/ i <= Len(a) /\ i <= Len(b) /\ StrLess(a[i], b[i])

\* Python's a < b on a tuple of tuples of str
KeyLess(a, b) ==
    \E i \in 1..(Min(Len(a), Len(b)) + 1) :
        /\ SubSeq(a, 1, i - 1) = SubSeq(b, 1, i - 1)
        /\ \/ i > Len(a) /\ i <= Len(b)
           \/ i <= Len(a) /\ i <= Len(b) /\ TupleLess(a[i], b[i])

\* sep.join(lines)
RECURSIVE Join(_, _)
Join(sep, lines) ==
    IF lines = <<>> THEN ""
    ELSE IF Len(lines) = 1 THEN lines[1]
    ELSE lines[1] \o sep \o Join(sep, Tail(lines))

\* the index of the first "\n" of s at or after i, Len(s) + 1 if none
NextNewline(s, i) ==
    IF \E j \in i..Len(s) : Chr(s, j) = "\n"
    THEN CHOOSE j \in i..Len(s) :
             /\ Chr(s, j) = "\n"
             /\ \A k \in i..(j - 1) : Chr(s, k) # "\n"
    ELSE Len(s) + 1

\* s.splitlines() for text whose only line boundary is "\n": the lines of
\* s from index i on, the first of them ending before index j
RECURSIVE SplitLinesFrom(_, _, _)
SplitLinesFrom(s, i, j) ==
    IF i > Len(s) THEN <<>>
    ELSE <<SubSeq(s, i, j - 1)>>
         \o SplitLinesFrom(s, j + 1, NextNewline(s, j + 1))

splitlines(s) == SplitLinesFrom(s, 1, NextNewline(s, 1))

\* int(s) for a non-empty run of ASCII digits
RECURSIVE StrToInt(_)
StrToInt(s) ==
    IF s = "" THEN 0
    ELSE 10 * StrToInt(SubSeq(s, 1, Len(s) - 1))
         + (Ord(Chr(s, Len(s))) - Ord("0"))

\* "%d" % i for i >= 0
RECURSIVE IntToStr(_)
IntToStr(i) ==
    IF i < 10 THEN Chr("0123456789", i + 1)
    ELSE IntToStr(i \div 10) \o Chr("0123456789", (i % 10) + 1)

RECURSIVE Zeros(_)
Zeros(n) == IF n <= 0 THEN "" ELSE "0" \o Zeros(n - 1)

(***************************************************************************)
(* pathlib.PurePosixPath                                                   *)
(***************************************************************************)

\* the components of s between "/" separators, empty and "." ones dropped
RECURSIVE SplitSlashFrom(_, _, _)
SplitSlashFrom(s, i, cur) ==
    LET keep(c) == IF c = "" \/ c = "." THEN <<>> ELSE <<c>>
    IN  IF i > Len(s) THEN keep(cur)
        ELSE IF Chr(s, i) = "/" THEN keep(cur) \o SplitSlashFrom(s, i + 1, "")
        ELSE SplitSlashFrom(s, i + 1, cur \o Chr(s, i))

\* Path(p).parts
PathParts(p) ==
    IF p # "" /\ Chr(p, 1) = "/" THEN <<"/">> \o SplitSlashFrom(p, 1, "")
    ELSE SplitSlashFrom(p, 1, "")

\* str(Path(*parts))
PathStr(parts) ==
    IF parts = <<>> THEN "."
    ELSE IF parts[1] = "/" THEN "/" \o Join("/", Tail(parts))
    ELSE Join("/", parts)

\* str(Path(p).parent)
PathParent(p) ==
    LET parts == PathParts(p)
    IN  IF Len(parts) <= 1 THEN PathStr(parts)
        ELSE PathStr(SubSeq(parts, 1, Len(parts) - 1))

\* get_dirs().chroot: None, or the directory --chroot names
ChrootPool == {None, "/r"}

\* the paths below a root that the subsystems of the model touch
TreeNames ==
    {"/", "/a", "/a/file2", "/a/file02", "/a/file10",
     "/b", "/b/c", "/b/c/x.service",
     "/etc", "/etc/udev", "/etc/udev/rules.d",
     "/etc/udev/rules.d/70-soundcraft-utils.rules"}

\* the same paths as f"{chroot}{path}" spells them
TreeSpellings ==
    { (IF ch = None THEN "" ELSE ch) \o p : ch \in ChrootPool, p \in TreeNames }

\* the paths remove_obsolete_files looks at, with their directories and a
\* file an old install may have left in the state directory
SystemNames ==
    {"/var", "/var/lib", "/var/lib/soundcraft-utils",
     "/var/lib/soundcraft-utils/state.json",
     "/usr", "/usr/share", "/usr/share/dbus-1",
     "/usr/share/dbus-1/system.d",
     "/usr/share/dbus-1/system.d/soundcraft-utils.conf",
     "/usr/share/dbus-1/system-services",
     "/usr/share/dbus-1/system-services/soundcraft.utils.notepad.service",
     "/usr/local", "/usr/local/bin",
     "/usr/local/bin/soundcraft_dbus_service",
     "/usr/bin", "/usr/bin/soundcraft_dbus_service"}

\* the destinations of the package's data files below get_dirs().datadir,
\* with their directories
DataNames ==
    {"/b/dbus-1", "/b/dbus-1/services",
     "/b/dbus-1/services/soundcraft.utils.notepad.service",
     "/b/applications", "/b/applications/soundcraft.utils.desktop",
     "/b/icons", "/b/icons/hicolor",
     "/b/icons/hicolor/scalable", "/b/icons/hicolor/scalable/apps",
     "/b/icons/hicolor/scalable/apps/soundcraft.utils.svg",
     "/b/icons/hicolor/16x16", "/b/icons/hicolor/16x16/apps",
     "/b/icons/hicolor/16x16/apps/soundcraft.utils.png"}

DataSpellings ==
    { (IF ch = None THEN "" ELSE ch) \o p : ch \in ChrootPool, p \in DataNames }

\* the file --sudo-script may name
ScriptNames == {"/a/script.sh"}

SpelledPaths ==
    TreeSpellings \cup SystemNames \cup DataSpellings \cup ScriptNames

\* pathlib's results for these paths (tabulated once)
PartsOf == [p \in SpelledPaths |-> PathParts(p)]
StrOf == [p \in SpelledPaths |-> PathStr(PartsOf[p])]
ParentOf == [p \in {StrOf[q] : q \in SpelledPaths} |-> PathParent(p)]

\* str(Path(p)) and str(Path(p).parent) for a path of the model
Path_str(p) == StrOf[p]
Path_parent(p) == ParentOf[p]

(***************************************************************************)
(* The filesystem the os / pathlib / shutil calls act on.  A node is       *)
(* absent, a directory or a regular file; `writable` says whether this     *)
(* process may create and delete entries in a directory, `mine` whether it *)
(* owns a file (chmod, utime), and `mode` holds a file's permission bits.  *)
(* A call returns the filesystem it leaves and the OSError it raises.      *)
(***************************************************************************)

NoNode == [kind |-> "none"]
DirNode(writable) == [kind |-> "dir", writable |-> writable]
FileNode(content, mode, mine) ==
    [kind |-> "file", content |-> content, mode |-> mode, mine |-> mine]

Ok(f) == [fs |-> f, err |-> None]
Raise(f, e) == [fs |-> f, err |-> e]

Exists(f, p) == p \in DOMAIN f /\ f[p].kind # "none"
IsDir(f, p) == Exists(f, p) /\ f[p].kind = "dir"
IsFile(f, p) == Exists(f, p) /\ f[p].kind = "file"

\* the mode a new file gets from open(): 0o666 masked by the usual umask 0o022
NewFileMode == 438 - 18

\* may this process open the file for writing: the owner's write bit for
\* its own files, the others' write bit for foreign ones
CanWrite(node) ==
    IF node.mine THEN (node.mode \div 128) % 2 = 1
    ELSE (node.mode \div 2) % 2 = 1

\* os.mkdir(d), where d lies in the directory `parent`
MkdirIn(f, d, parent) ==
    IF Exists(f, d) THEN Raise(f, "FileExistsError")
    ELSE IF ~Exists(f, parent) THEN Raise(f, "FileNotFoundError")
    ELSE IF ~IsDir(f, parent) THEN Raise(f, "NotADirectoryError")
    ELSE IF ~f[parent].writable THEN Raise(f, "PermissionError")
    ELSE Ok([f EXCEPT ![d] = DirNode(TRUE)])

os_mkdir(f, d) == MkdirIn(f, d, Path_parent(d))

\* Path(d).mkdir(parents=True, exist_ok=True), as pathlib writes it: try
\* os.mkdir; on FileNotFoundError make the parent first and try again; on
\* any other OSError raise unless d is a directory
RECURSIVE Path_mkdir(_, _)

\* the second os.mkdir(d), which returned `again`
MkdirAgain(f, d, again) ==
    IF again.err = None \/ IsDir(f, d) THEN Ok(again.fs) ELSE again

\* after self.parent.mkdir(parents=True, exist_ok=True) returned pr
MkdirAfterParent(d, pr) ==
    IF pr.err # None THEN pr ELSE MkdirAgain(pr.fs, d, os_mkdir(pr.fs, d))

\* after the first os.mkdir(d) returned r
MkdirResult(f, d, parent, r) ==
    IF r.err = None THEN r
    ELSE IF r.err = "FileNotFoundError"
    THEN IF parent = d THEN r ELSE MkdirAfterParent(d, Path_mkdir(f, parent))
    ELSE IF IsDir(f, d) THEN Ok(f) ELSE r

Path_mkdir(f, d) == MkdirResult(f, d, Path_parent(d), os_mkdir(f, d))

\* open(p, "w").write(content) for p in the directory `parent`: truncate an
\* existing file or create one
OpenIn(f, p, parent, content, old) ==
    IF Exists(f, p)
    THEN IF IsDir(f, p) THEN Raise(f, "IsADirectoryError")
         ELSE IF ~CanWrite(f[p]) THEN Raise(f, "PermissionError")
         ELSE Ok([f EXCEPT ![p].content = old \o content])
    ELSE IF ~Exists(f, parent) THEN Raise(f, "FileNotFoundError")
    ELSE IF ~IsDir(f, parent) THEN Raise(f, "NotADirectoryError")
    ELSE IF ~f[parent].writable THEN Raise(f, "PermissionError")
    ELSE Ok([f EXCEPT ![p] = FileNode(content, NewFileMode, TRUE)])

Append_open_w(f, p, content) ==
    OpenIn(f, p, Path_parent(p), content,
           IF IsFile(f, p) THEN f[p].content ELSE "")

open_w(f, p, content) == OpenIn(f, p, Path_parent(p), content, "")

\* Path(p).write_text(content)
Path_write_text(f, p, content) == open_w(f, p, content)

\* Path(p).chmod(mode)
Path_chmod(f, p, mode) ==
    IF ~Exists(f, p) THEN Raise(f, "FileNotFoundError")
    ELSE IF IsDir(f, p)
    THEN IF f[p].writable THEN Ok(f) ELSE Raise(f, "PermissionError")
    ELSE IF ~f[p].mine THEN Raise(f, "PermissionError")
    ELSE Ok([f EXCEPT ![p].mode = mode])

\* Path(p).unlink() for p in the directory `parent`
UnlinkIn(f, p, parent) ==
    IF ~Exists(f, p)
    THEN IF Exists(f, parent) /\ ~IsDir(f, parent)
         THEN Raise(f, "NotADirectoryError")
         ELSE Raise(f, "FileNotFoundError")
    ELSE IF IsDir(f, p) THEN Raise(f, "IsADirectoryError")
    ELSE IF ~f[parent].writable THEN Raise(f, "PermissionError")
    ELSE Ok([f EXCEPT ![p] = NoNode])

\* unlink followed by the removal of the directory that held p
UnlinkAndPrune(f, p) ==
    IF UnlinkIn(f, p, Path_parent(p)).err # None
    THEN UnlinkIn(f, p, Path_parent(p))
    ELSE Ok([q \in DOMAIN f |->
                IF q = p \/ Path_parent(q) = Path_parent(p)
                   \/ q = Path_parent(p)
                THEN NoNode ELSE f[q]])

Path_unlink(f, p) == UnlinkIn(f, p, Path_parent(p))

\* the package's data files: path -> text and mode (read-only input)
SrcFiles ==
    [p \in {"/pkg/data/xdg/icon.svg", "/pkg/data/xdg/icon.16.png",
            "/pkg/data/xdg/x.desktop", "/pkg/data/xdg/x.desktop~",
            "/pkg/data/xdg/README",
            "/pkg/data/dbus-1/x.service", "/pkg/data/dbus-1/x.service~",
            "/pkg/data/dbus-1/y.service", "/pkg/data/dbus-1/x.conf",
            "/pkg/data/dbus-1/n.service", "/pkg/data/dbus-1/e.service"} |->
        IF p = "/pkg/data/dbus-1/x.service"
        THEN [content |-> "Name=${busname}\nExec=$dbus_service_bin\n",
              mode |-> 420]
        ELSE IF p = "/pkg/data/dbus-1/y.service"
        THEN [content |-> "Name=${busname}\nUser=${user}\n", mode |-> 420]
        ELSE IF p = "/pkg/data/dbus-1/n.service"
        THEN [content |-> "Name=${busname}", mode |-> 420]
        ELSE IF p = "/pkg/data/dbus-1/e.service"
        THEN [content |-> "Name=${busname}\nEOF\nExec=$dbus_service_bin\n",
              mode |-> 420]
        ELSE IF p = "/pkg/data/xdg/x.desktop"
        THEN [content |-> "Exec=$gui_bin\nIcon=${APPLICATION_ID}\n",
              mode |-> 420]
        ELSE IF p = "/pkg/data/xdg/icon.16.png"
        THEN [content |-> "PNG", mode |-> 420]
        ELSE IF p = "/pkg/data/xdg/icon.svg"
        THEN [content |-> "<svg/>\n", mode |-> 420]
        ELSE [content |-> "old\n", mode |-> 420]]

\* shutil.copy2(src, dst): copy the bytes, then copystat (utime and chmod
\* of dst with the source's times and mode, which only the owner may do)
\* copystat(src, dst) once the bytes are copied, w being what open/write did
CopyStat(w, src, dst) ==
    IF w.err # None THEN w ELSE Path_chmod(w.fs, dst, SrcFiles[src].mode)

shutil_copy2(f, src, dst) ==
    IF src \notin DOMAIN SrcFiles THEN Raise(f, "FileNotFoundError")
    ELSE CopyStat(open_w(f, dst, SrcFiles[src].content), src, dst)

(***************************************************************************)
(* ScriptCommand and SudoScript                                            *)
(***************************************************************************)

\* ScriptCommand.__init__
ScriptCommand(cmd, skip_if, comment) ==
    [cmd |-> cmd, skip_if |-> skip_if, comment |-> comment]

\* SudoScript.add_cmd: the command list after the append
add_cmd(cmds, cmd, skip_if, comment) ==
    IF skip_if
    THEN Append(cmds, ScriptCommand(cmd, TRUE, comment))
    ELSE Append(cmds, ScriptCommand(cmd, FALSE, comment))

\* SudoScript.needs_to_run: the loop over sudo_commands, from index i on
RECURSIVE NeedsToRunFrom(_, _)
NeedsToRunFrom(cmds, i) ==
    IF i > Len(cmds) THEN FALSE
    ELSE IF cmds[i].skip_if THEN NeedsToRunFrom(cmds, i + 1)
    ELSE TRUE

NonEmpty_needs_to_run(cmds) == Len(cmds) > 0

needs_to_run(cmds) == NeedsToRunFrom(cmds, 1)

\* soundcraft.constants.BASE_EXE_SETUP
BASE_EXE_SETUP == "soundcraft_installtool"

\* the for loop of ScriptCommand.write over self.cmd.splitlines()
RECURSIVE CommentedLines(_)
CommentedLines(lines) ==
    IF lines = <<>> THEN ""
    ELSE "# " \o Head(lines) \o "\n" \o CommentedLines(Tail(lines))

\* ScriptCommand.write: the text written to the file
Bare_ScriptCommand_write(c) ==
    "\n" \o (IF c.comment # None /\ c.comment # ""
             THEN "# " \o c.comment \o "\n" ELSE "")
         \o c.cmd \o "\n"

ScriptCommand_write(c) ==
    "\n" \o (IF c.comment # None /\ c.comment # ""
             THEN "# " \o c.comment \o "\n" ELSE "")
         \o (IF c.skip_if
             THEN "# [command skipped (not required)]\n"
                  \o CommentedLines(splitlines(c.cmd))
             ELSE c.cmd \o "\n")

\* the for loop of SudoScript.write, from command i on
RECURSIVE WriteFrom(_, _)
WriteFrom(cmds, i) ==
    IF i > Len(cmds) THEN ""
    ELSE ScriptCommand_write(cmds[i]) \o WriteFrom(cmds, i + 1)

\* the same loop over reversed(self.sudo_commands)
RECURSIVE WriteBackFrom(_, _)
WriteBackFrom(cmds, i) ==
    IF i < 1 THEN ""
    ELSE ScriptCommand_write(cmds[i]) \o WriteBackFrom(cmds, i - 1)

\* the text before the commands
ScriptHeader ==
    "#!/bin/sh\n"
    \o "# This script contains commands which " \o BASE_EXE_SETUP
    \o " could not run.\n"
    \o "# You might have better luck running them manually, probably via sudo.\n"

\* SudoScript.write: the text written to the file
Backwards_SudoScript_write(cmds) ==
    ScriptHeader \o (IF Len(cmds) > 0 THEN WriteBackFrom(cmds, Len(cmds))
                     ELSE "\n# No commands to run.\n")

SudoScript_write(cmds) ==
    ScriptHeader \o (IF Len(cmds) > 0 THEN WriteFrom(cmds, 1)
                     ELSE "\n# No commands to run.\n")

(***************************************************************************)
(* FileSetup: the sort key and the sorted iteration                        *)
(***************************************************************************)

\* the width in "%08d"
PadWidth == 8

\* FileSetup.destfile_key_re.split(s): the pieces between digit/non-digit
\* boundaries, with the (empty) captured separator between two pieces
RECURSIVE ReSplitFrom(_, _, _)
ReSplitFrom(s, i, cur) ==
    IF i > Len(s) THEN <<cur>>
    ELSE IF i > 1 /\ IsDigit(Chr(s, i - 1)) # IsDigit(Chr(s, i))
    THEN <<cur, "">> \o ReSplitFrom(s, i + 1, Chr(s, i))
    ELSE ReSplitFrom(s, i + 1, cur \o Chr(s, i))

destfile_key_re_split(s) == ReSplitFrom(s, 1, "")

\* FileSetup.int_as_str
int_as_str(thing) ==
    IF thing # "" /\ \A i \in 1..Len(thing) : IsDigit(Chr(thing, i))
    THEN LET d == IntToStr(StrToInt(thing))
         IN  Zeros(PadWidth - Len(d)) \o d
    ELSE thing

\* FileSetup.destfile_key
PartKey(pieces) == [j \in 1..Len(pieces) |-> int_as_str(pieces[j])]

PartsKey(parts) ==
    [i \in 1..Len(parts) |-> PartKey(destfile_key_re_split(parts[i]))]

\* the keys of the paths of the model (tabulated once)
KeyOf == [p \in SpelledPaths |-> PartsKey(PartsOf[p])]

destfile_key(file) ==
    IF file.dst \in SpelledPaths THEN KeyOf[file.dst]
    ELSE PartsKey(PathParts(file.dst))

\* one step of a stable ascending sort of <<key, item>> pairs: x goes
\* behind every pair whose key is not greater than its own
RECURSIVE InsertPair(_, _)
InsertPair(s, x) ==
    IF s = <<>> THEN <<x>>
    ELSE IF KeyLess(x[1], s[1][1]) THEN <<x>> \o s
    ELSE <<s[1]>> \o InsertPair(Tail(s), x)

RECURSIVE SortPairs(_, _)
SortPairs(pairs, n) ==
    IF n = 0 THEN <<>> ELSE InsertPair(SortPairs(pairs, n - 1), pairs[n])

\* sorted(items, key=FileSetup.destfile_key, reverse=reverse): the keys are
\* computed once; the sort is stable, and a reverse sort reverses the list,
\* sorts it ascending and reverses the result
sorted(items, reverse) ==
    LET pairs  == [i \in 1..Len(items) |-> <<destfile_key(items[i]), items[i]>>]
        n      == Len(items)
        input  == IF reverse THEN [i \in 1..n |-> pairs[n + 1 - i]] ELSE pairs
        result == SortPairs(input, n)
    IN  [i \in 1..n |-> IF reverse THEN result[n + 1 - i][2] ELSE result[i][2]]

(***************************************************************************)
(* AbstractFile and its subclasses.  A run's state while a setup method    *)
(* executes is a record st of the filesystem, the sudo script's commands,  *)
(* the calls made and the exception raised, if any.                        *)
(***************************************************************************)

\* the mode _install gives an installed file, 0o0644
InstalledMode == 420

\* the constructors
CopyFile(dst, src, comment) ==
    [cls |-> "CopyFile", dst |-> dst, src |-> src, comment |-> comment]

StringToFile(dst, content, comment) ==
    [cls |-> "StringToFile", dst |-> dst, content |-> content,
     comment |-> comment]

\* the characters of a Template identifier, [_a-z][_a-z0-9]* ignoring case
IsIdStart(c) ==
    c # "" /\ (c = "_" \/ (Ord(c) >= Ord("a") /\ Ord(c) <= Ord("z"))
                       \/ (Ord(c) >= Ord("A") /\ Ord(c) <= Ord("Z")))
IsIdChar(c) == IsIdStart(c) \/ IsDigit(c)

\* the end of the longest identifier of s that starts at i (i - 1 if none)
RECURSIVE IdEnd(_, _)
IdEnd(s, i) ==
    IF i <= Len(s) /\ IsIdChar(Chr(s, i)) THEN IdEnd(s, i + 1) ELSE i - 1

\* string.Template(s).substitute(data) from index i on: "$$" is a dollar,
\* "$name" and "${name}" are looked up in data (KeyError when absent), any
\* other "$" is a ValueError
RECURSIVE SubstituteFrom(_, _, _)
SubstituteFrom(s, i, data) ==
    LET rest(j, text) ==
            LET r == SubstituteFrom(s, j, data)
            IN  IF r.err # None THEN r
                ELSE [content |-> text \o r.content, err |-> None]
        lookup(name, j) ==
            IF name \in DOMAIN data THEN rest(j, data[name])
            ELSE [content |-> "", err |-> "KeyError"]
        invalid == [content |-> "", err |-> "ValueError"]
    IN  IF i > Len(s) THEN [content |-> "", err |-> None]
        ELSE IF Chr(s, i) # "$" THEN rest(i + 1, Chr(s, i))
        ELSE IF Chr(s, i + 1) = "$" THEN rest(i + 2, "$")
        ELSE IF IsIdStart(Chr(s, i + 1))
        THEN lookup(SubSeq(s, i + 1, IdEnd(s, i + 1)), IdEnd(s, i + 1) + 1)
        ELSE IF Chr(s, i + 1) = "{" /\ IsIdStart(Chr(s, i + 2))
                /\ Chr(s, IdEnd(s, i + 2) + 1) = "}"
        THEN lookup(SubSeq(s, i + 2, IdEnd(s, i + 2)), IdEnd(s, i + 2) + 2)
        ELSE invalid

Template_substitute(s, data) == SubstituteFrom(s, 1, data)

\* TemplateFile.__init__: the source is read and substituted at once
TemplateFile(dst, src, template_data, comment) ==
    [cls |-> "TemplateFile", dst |-> dst, src |-> src,
     content |-> Template_substitute(SrcFiles[src].content, template_data).content,
     comment |-> comment]

\* AbstractFile.comment
AbstractFile_comment(file) ==
    IF file.comment # None /\ file.comment # "" THEN file.comment
    ELSE file.cls \o ":" \o file.dst

\* a destination resolved without looking at the prefix
Unprefixed_chroot_dst(file, ch) == file.dst

\* AbstractFile.chroot_dst, with ch = get_dirs().chroot
chroot_dst(file, ch) ==
    IF ch # None /\ ch # "" THEN Path_str(ch \o file.dst) ELSE file.dst

\* CopyFile.direct_install / StringToFile.direct_install /
\* TemplateFile.direct_install, writing to dst = self.chroot_dst
direct_install(file, dst, f) ==
    IF file.cls = "CopyFile" THEN shutil_copy2(f, file.src, dst)
    ELSE Path_write_text(f, dst, file.content)

\* CopyFile.shell_install / StringToFile.shell_install /
\* TemplateFile.shell_install
shell_install(file) ==
    IF file.cls = "CopyFile"
    THEN Join("\n", <<"mkdir -p " \o Path_parent(file.dst),
                      "cp -p " \o file.src \o " " \o file.dst>>)
    ELSE Join("\n", <<"cat>" \o file.dst \o "<<EOF">>
                      \o splitlines(file.content) \o <<"EOF">>)

\* the try block of AbstractFile._install after direct_install returned d
AfterDirectInstall(dst, d) ==
    IF d.err # None THEN d ELSE Path_chmod(d.fs, dst, InstalledMode)

\* the try block of AbstractFile._install after mkdir returned m
AfterMkdir(file, dst, m) ==
    IF m.err # None THEN m
    ELSE AfterDirectInstall(dst, direct_install(file, dst, m.fs))

\* the try block of AbstractFile._install: mkdir, direct_install, chmod
InstallAttempt(file, dst, f) ==
    AfterMkdir(file, dst, Path_mkdir(f, Path_parent(dst)))

\* the run's state after a call whose filesystem work returned r
Called(st, name, file, r) ==
    [st EXCEPT !.fs = r.fs, !.calls = Append(st.calls, <<name, file>>)]

\* AbstractFile._install once the try block returned r:
\* except PermissionError queues the shell command
InstallOutcome(file, st, r) ==
    IF r.err = None THEN Called(st, "_install", file, r)
    ELSE IF r.err = "PermissionError"
    THEN [Called(st, "_install", file, r) EXCEPT
             !.cmds = add_cmd(st.cmds, shell_install(file), FALSE,
                              AbstractFile_comment(file))]
    ELSE [Called(st, "_install", file, r) EXCEPT !.exc = r.err]

\* AbstractFile._install
AbstractFile__install(file, ch, st) ==
    InstallOutcome(file, st, InstallAttempt(file, chroot_dst(file, ch), st.fs))

\* AbstractFile._uninstall once unlink returned r: except FileNotFoundError
\* queues a skipped rm -f, except PermissionError queues rm -f
AlwaysQueue_UninstallOutcome(file, st, r) ==
    [Called(st, "_uninstall", file, r) EXCEPT
        !.cmds = add_cmd(st.cmds, "rm -f " \o file.dst, FALSE,
                         AbstractFile_comment(file))]

UninstallOutcome(file, st, r) ==
    IF r.err = None THEN Called(st, "_uninstall", file, r)
    ELSE IF r.err = "FileNotFoundError"
    THEN [Called(st, "_uninstall", file, r) EXCEPT
             !.cmds = add_cmd(st.cmds, "rm -f " \o file.dst, TRUE,
                              AbstractFile_comment(file))]
    ELSE IF r.err = "PermissionError"
    THEN [Called(st, "_uninstall", file, r) EXCEPT
             !.cmds = add_cmd(st.cmds, "rm -f " \o file.dst, FALSE,
                              AbstractFile_comment(file))]
    ELSE [Called(st, "_uninstall", file, r) EXCEPT !.exc = r.err]

\* a variant that also removes the directory of the destination
Pruning__uninstall(file, ch, st) ==
    UninstallOutcome(file, st, UnlinkAndPrune(st.fs, chroot_dst(file, ch)))

\* AbstractFile._uninstall
AbstractFile__uninstall(file, ch, st) ==
    UninstallOutcome(file, st, Path_unlink(st.fs, chroot_dst(file, ch)))

(***************************************************************************)
(* FileSetup                                                               *)
(***************************************************************************)

\* FileSetup.add_file
add_file(registered, file) == Append(registered, file)

\* the for loop of FileSetup.install over the list `order`, from index i
\* on; an exception ends it
RECURSIVE InstallLoop(_, _, _, _)
InstallLoop(order, i, ch, st) ==
    IF i > Len(order) \/ st.exc # None THEN st
    ELSE InstallLoop(order, i + 1, ch, AbstractFile__install(order[i], ch, st))

\* FileSetup.install
Unsorted_install(registered, ch, st) == InstallLoop(registered, 1, ch, st)

FileSetup_install(registered, ch, st) ==
    InstallLoop(sorted(registered, FALSE), 1, ch, st)

\* the for loop of FileSetup.uninstall
RECURSIVE UninstallLoop(_, _, _, _)
UninstallLoop(order, i, ch, st) ==
    IF i > Len(order) \/ st.exc # None THEN st
    ELSE UninstallLoop(order, i + 1, ch,
                       AbstractFile__uninstall(order[i], ch, st))

\* FileSetup.uninstall
FileSetup_uninstall(registered, ch, st) ==
    UninstallLoop(sorted(registered, TRUE), 1, ch, st)

(***************************************************************************)
(* SetupUdevRules                                                          *)
(***************************************************************************)

\* soundcraft.constants and soundcraft.dirs, which setup.py imports
PY_LIST_OF_PRODUCT_IDS == <<48, 49, 50>>
PACKAGE == "soundcraft-utils"
udev_rulesdir == "/etc/udev/rules.d"

\* "%x" % n and "%04x" % n
RECURSIVE Hex(_)
Hex(n) ==
    IF n < 16 THEN Chr("0123456789abcdef", n + 1)
    ELSE Hex(n \div 16) \o Chr("0123456789abcdef", (n % 16) + 1)

HexWidth == 4

Hex04(n) == Zeros(HexWidth - Len(Hex(n))) \o Hex(n)

\* "".join([f"{line}\n" for line in lines])
RECURSIVE JoinLines(_)
JoinLines(lines) ==
    IF lines = <<>> THEN ""
    ELSE Head(lines) \o "\n" \o JoinLines(Tail(lines))

\* SetupUdevRules.__init__: self.udev_rules_content
udev_rules_content ==
    JoinLines(
        <<"# Soundcraft Notepad series mixers with audio routing controlled by USB">>
        \o [i \in 1..Len(PY_LIST_OF_PRODUCT_IDS) |->
              "ACTION==\"add\", SUBSYSTEM==\"usb\", ATTRS{idVendor}==\"05fc\", ATTRS{idProduct}==\""
              \o Hex04(PY_LIST_OF_PRODUCT_IDS[i]) \o "\", TAG+=\"uaccess\""])

\* SetupUdevRules.__init__: self.udev_rules_dst
udev_rules_dst == udev_rulesdir \o "/" \o "70-" \o PACKAGE \o ".rules"

\* SetupUdevRules.__init__: the files registered
SetupUdevRules_init ==
    add_file(<<>>,
             StringToFile(udev_rules_dst, udev_rules_content,
                          "udev rules allowing non-root access to the USB device"))

\* SetupUdevRules.emit_code_for_rule_change
emit_code_for_rule_change(cmds, skip_if) ==
    add_cmd(cmds,
            "for product_id in "
              \o Join(" ", [i \in 1..Len(PY_LIST_OF_PRODUCT_IDS) |->
                               Hex04(PY_LIST_OF_PRODUCT_IDS[i])])
              \o "\ndo\n    udevadm trigger --verbose \\\n"
              \o "        --action=add --subsystem-match=usb \\\n"
              \o "        --attr-match=idVendor=05fc --attr-match=idProduct=${product_id}\n"
              \o "done",
            skip_if,
            "Trigger udev rules which run when adding existing mixer devices")

\* old_content as install() and uninstall() populate it: a dict, here the
\* set of its items; read_text() of a directory raises
ReadOldContent(f) ==
    IF ~Exists(f, udev_rules_dst) THEN [items |-> {}, err |-> None]
    ELSE IF IsDir(f, udev_rules_dst)
    THEN [items |-> {}, err |-> "IsADirectoryError"]
    ELSE [items |-> {<<udev_rules_dst, f[udev_rules_dst].content>>},
          err |-> None]

\* install() from the call of super().install(), which returned st, on
InstallGate(old, st) ==
    IF st.exc # None THEN st
    ELSE [st EXCEPT !.cmds =
             emit_code_for_rule_change(
                 st.cmds, {<<udev_rules_dst, udev_rules_content>>} = old.items)]

\* uninstall() from the call of super().uninstall(), which returned st, on
UninstallGate(old, st) ==
    IF st.exc # None THEN st
    ELSE [st EXCEPT !.cmds =
             emit_code_for_rule_change(
                 st.cmds,
                 { item \in old.items : item[1] # udev_rules_dst } = old.items)]

\* install() and uninstall() once old_content is populated
InstallWith(old, registered, ch, st) ==
    IF old.err # None THEN [st EXCEPT !.exc = old.err]
    ELSE InstallGate(old, FileSetup_install(registered, ch, st))

UninstallWith(old, registered, ch, st) ==
    IF old.err # None THEN [st EXCEPT !.exc = old.err]
    ELSE UninstallGate(old, FileSetup_uninstall(registered, ch, st))

\* SetupUdevRules.install
SetupUdevRules_install(registered, ch, st) ==
    InstallWith(ReadOldContent(st.fs), registered, ch, st)

\* SetupUdevRules.uninstall
SetupUdevRules_uninstall(registered, ch, st) ==
    UninstallWith(ReadOldContent(st.fs), registered, ch, st)

(***************************************************************************)
(* SetupObsoleteInstall                                                    *)
(***************************************************************************)

\* soundcraft.constants.OLD_BASE_EXE_SERVICE
OLD_BASE_EXE_SERVICE == "soundcraft_dbus_service"

old_statedir == "/var/lib/soundcraft-utils"

old_dbus1dir == "/usr/share/dbus-1"

obsolete_files ==
    <<old_dbus1dir \o "/" \o "system.d/soundcraft-utils.conf",
      old_dbus1dir \o "/" \o "system-services/soundcraft.utils.notepad.service",
      "/usr/local/bin" \o "/" \o OLD_BASE_EXE_SERVICE,
      "/usr/bin" \o "/" \o OLD_BASE_EXE_SERVICE>>

\* files_to_delete (present = TRUE) and files_to_skip (present = FALSE):
\* the loop over obsolete_files from index i on
RECURSIVE ObsoleteFrom(_, _, _)
ObsoleteFrom(f, i, present) ==
    IF i > Len(obsolete_files) THEN <<>>
    ELSE (IF Exists(f, obsolete_files[i]) = present
          THEN <<obsolete_files[i]>> ELSE <<>>)
         \o ObsoleteFrom(f, i + 1, present)

\* the two add_cmd calls that end remove_obsolete_files
QueueObsolete(cmds, to_skip) ==
    IF to_skip = <<>> THEN cmds
    ELSE add_cmd(cmds, "rm -f " \o Join(" ", to_skip), TRUE,
                 "Remove obsolete system D-Bus service config and script files (from pre-0.5.0)")

QueueObsoleteDelete(cmds, to_delete) ==
    IF to_delete = <<>> THEN cmds
    ELSE add_cmd(cmds, "rm -f " \o Join(" ", to_delete), FALSE,
                 "Remove obsolete system D-Bus service config and script files (from pre-0.5.0)")

\* SetupObsoleteInstall.remove_obsolete_files: the command list after it
remove_obsolete_files(f, cmds) ==
    QueueObsolete(
        QueueObsoleteDelete(
            add_cmd(cmds, "rmdir " \o old_statedir, ~IsDir(f, old_statedir),
                    "Remove obsolete state directory (if empty)"),
            ObsoleteFrom(f, 1, TRUE)),
        ObsoleteFrom(f, 1, FALSE))

\* SetupObsoleteInstall.stop_system_bus_service: the calls made on the
\* system bus, `running` being NameHasOwner's answer
stop_system_bus_service(l, running) ==
    IF running
    THEN l \o << <<"SystemBus", "get">>, <<"SystemBus", "NameHasOwner">>,
                 <<"SystemBus", "get">>, <<"SystemBus", "Shutdown">> >>
    ELSE l \o << <<"SystemBus", "get">>, <<"SystemBus", "NameHasOwner">> >>

\* a check_install that does not look at the root prefix
Unguarded_check_install(ch, running, st) ==
    [st EXCEPT !.log = stop_system_bus_service(@, running),
               !.cmds = remove_obsolete_files(st.fs, @)]

\* SetupObsoleteInstall.check_install, which install() and uninstall() call
check_install(ch, running, st) ==
    IF ch # None /\ ch # "" THEN st
    ELSE [st EXCEPT !.log = stop_system_bus_service(@, running),
                    !.cmds = remove_obsolete_files(st.fs, @)]

(***************************************************************************)
(* /bin/sh run by root on the written script: the commands the setup tool  *)
(* queues are mkdir -p, cp -p, cat with a here-document, rm -f, rmdir and  *)
(* a for loop around udevadm trigger.                                      *)
(***************************************************************************)

StartsWith(s, pre) == Len(s) >= Len(pre) /\ SubSeq(s, 1, Len(pre)) = pre

EndsWith(s, suf) ==
    Len(s) >= Len(suf) /\ SubSeq(s, Len(s) - Len(suf) + 1, Len(s)) = suf

\* the index of the first blank of s at or after i, Len(s) + 1 if none
NextBlank(s, i) ==
    IF \E j \in i..Len(s) : Chr(s, j) = " "
    THEN CHOOSE j \in i..Len(s) :
             /\ Chr(s, j) = " "
             /\ \A k \in i..(j - 1) : Chr(s, k) # " "
    ELSE Len(s) + 1

\* the words of s from index i on, the first of them ending before index j
RECURSIVE WordsFrom(_, _, _)
WordsFrom(s, i, j) ==
    IF i > Len(s) THEN <<>>
    ELSE (IF j > i THEN <<SubSeq(s, i, j - 1)>> ELSE <<>>)
         \o WordsFrom(s, j + 1, NextBlank(s, j + 1))

Words(s) == WordsFrom(s, 1, NextBlank(s, 1))

\* the index of the first line equal to word at or after i, Len + 1 if none
RECURSIVE LineIndex(_, _, _)
LineIndex(lines, i, word) ==
    IF i > Len(lines) \/ lines[i] = word THEN i
    ELSE LineIndex(lines, i + 1, word)

\* the mode of a file root creates under umask 022
RootFileMode == 438 - 18

\* exit statuses
Done(f) == [fs |-> f, rc |-> 0]
Failed(f) == [fs |-> f, rc |-> 1]

\* mkdir -p d
RECURSIVE sh_mkdir_p(_, _)

MkdirBelow(d, up) ==
    IF up.rc # 0 THEN up ELSE Done([up.fs EXCEPT ![d] = DirNode(FALSE)])

sh_mkdir_p(f, d) ==
    IF IsDir(f, d) THEN Done(f)
    ELSE IF Exists(f, d) THEN Failed(f)
    ELSE MkdirBelow(d, sh_mkdir_p(f, Path_parent(d)))

\* > dst with the given content: the file is created or truncated
sh_write(f, dst, content, mode, keep_mode) ==
    IF dst \notin DOMAIN f \/ IsDir(f, dst) \/ ~IsDir(f, Path_parent(dst))
    THEN Failed(f)
    ELSE IF IsFile(f, dst)
    THEN Done([f EXCEPT ![dst].content = content,
                        ![dst].mode = IF keep_mode THEN @ ELSE mode])
    ELSE Done([f EXCEPT ![dst] = FileNode(content, mode, FALSE)])

\* cp -p src dst
sh_cp_p(f, words) ==
    IF Len(words) # 2 \/ words[1] \notin DOMAIN SrcFiles THEN Failed(f)
    ELSE sh_write(f, words[2], SrcFiles[words[1]].content,
                  SrcFiles[words[1]].mode, FALSE)

\* rm -f paths...: a missing path is no error, a directory is
RECURSIVE sh_rm_f(_, _, _)
sh_rm_f(r, paths, i) ==
    IF i > Len(paths) THEN r
    ELSE IF paths[i] \notin DOMAIN r.fs \/ ~Exists(r.fs, paths[i])
    THEN sh_rm_f(r, paths, i + 1)
    ELSE IF IsDir(r.fs, paths[i]) THEN sh_rm_f(Failed(r.fs), paths, i + 1)
    ELSE sh_rm_f([r EXCEPT !.fs[paths[i]] = NoNode], paths, i + 1)

\* rmdir d: d must be an empty directory
sh_rmdir(f, d) ==
    IF d \in DOMAIN f /\ IsDir(f, d)
       /\ \A q \in DOMAIN f : (q # d /\ Path_parent(q) = d) => ~Exists(f, q)
    THEN Done([f EXCEPT ![d] = NoNode])
    ELSE Failed(f)

\* the here-document body as the file receives it
RECURSIVE HereDoc(_, _, _)
HereDoc(lines, i, end) ==
    IF i >= end THEN "" ELSE lines[i] \o "\n" \o HereDoc(lines, i + 1, end)

\* the shell after a command that returned r
ShellStep(sh, r) == [fs |-> r.fs, status |-> Append(sh.status, r.rc)]

\* the lines of the script from line i on
RECURSIVE ExecFrom(_, _, _)

\* cat>dst<<EOF, the delimiter line being line `end`
ExecCat(lines, i, end, sh) ==
    ExecFrom(lines, end + 1,
             ShellStep(sh, sh_write(sh.fs,
                                    SubSeq(lines[i], Len("cat>") + 1,
                                           Len(lines[i]) - Len("<<EOF")),
                                    HereDoc(lines, i + 1, end),
                                    RootFileMode, TRUE)))

ExecFrom(lines, i, sh) ==
    IF i > Len(lines) THEN sh
    ELSE IF lines[i] = "" \/ Chr(lines[i], 1) = "#"
    THEN ExecFrom(lines, i + 1, sh)
    ELSE IF StartsWith(lines[i], "cat>") /\ EndsWith(lines[i], "<<EOF")
    THEN ExecCat(lines, i, LineIndex(lines, i + 1, "EOF"), sh)
    ELSE IF StartsWith(lines[i], "mkdir -p ")
    THEN ExecFrom(lines, i + 1,
                  ShellStep(sh, sh_mkdir_p(sh.fs, Words(lines[i])[3])))
    ELSE IF StartsWith(lines[i], "cp -p ")
    THEN ExecFrom(lines, i + 1,
                  ShellStep(sh, sh_cp_p(sh.fs, Tail(Tail(Words(lines[i]))))))
    ELSE IF StartsWith(lines[i], "rm -f ")
    THEN ExecFrom(lines, i + 1,
                  ShellStep(sh, sh_rm_f(Done(sh.fs),
                                        Tail(Tail(Words(lines[i]))), 1)))
    ELSE IF StartsWith(lines[i], "rmdir ")
    THEN ExecFrom(lines, i + 1,
                  ShellStep(sh, sh_rmdir(sh.fs, Words(lines[i])[2])))
    ELSE IF StartsWith(lines[i], "for ")
    THEN ExecFrom(lines, LineIndex(lines, i + 1, "done") + 1,
                  ShellStep(sh, Done(sh.fs)))
    ELSE ExecFrom(lines, i + 1, ShellStep(sh, [fs |-> sh.fs, rc |-> 127]))

\* sudo sh script, on the filesystem f
sh_run(text, f) == ExecFrom(splitlines(text), 1, [fs |-> f, status |-> <<>>])

(***************************************************************************)
(* SetupEverything.  A subsystem is an AbstractSetup: here its class name  *)
(* and the number of commands one call of it queues in the environment at  *)
(* hand; whether a call raises is the environment's choice.                *)
(***************************************************************************)

\* SUDO_SCRIPT.add_cmd called n times by the subsystem at index i
RECURSIVE QueueFrom(_, _, _, _)
QueueFrom(run, i, thing, n) ==
    IF n = 0 THEN run
    ELSE QueueFrom(
             [run EXCEPT
                 !.cmds = add_cmd(@, thing.name \o " command", FALSE, thing.name),
                 !.log = Append(@, <<"add_cmd", i>>)],
             i, thing, n - 1)

\* thing.install() / thing.uninstall() for the subsystem at index i, which
\* raises e (None: returns) after queueing its commands
Thing_call(method, i, thing, e, run) ==
    [QueueFrom([run EXCEPT !.log = Append(@, <<method, i>>)],
               i, thing, thing.queues)
        EXCEPT !.exc = e]

\* SetupEverything.add
SetupEverything_add(things, thing) == Append(things, thing)

\* the for loop of install() / uninstall() over the indices in order, from
\* position k on; raises[i] is what the call of subsystem i raises
RECURSIVE EverythingLoop(_, _, _, _, _, _)
EverythingLoop(method, things, order, k, raises, run) ==
    IF k > Len(order) \/ run.exc # None THEN run
    ELSE EverythingLoop(method, things, order, k + 1, raises,
                        Thing_call(method, order[k], things[order[k]],
                                   raises[order[k]], run))

\* SetupEverything.install
SetupEverything_install(things, raises, run) ==
    EverythingLoop("install", things, [i \in 1..Len(things) |-> i], 1,
                   raises, run)

\* SetupEverything.uninstall: the loop over reversed(self.everything)
Forward_uninstall(things, raises, run) ==
    EverythingLoop("uninstall", things, [i \in 1..Len(things) |-> i], 1,
                   raises, run)

SetupEverything_uninstall(things, raises, run) ==
    EverythingLoop("uninstall", things,
                   [i \in 1..Len(things) |-> Len(things) + 1 - i], 1,
                   raises, run)

(***************************************************************************)
(* Specification of the sudo script accumulator                            *)
(***************************************************************************)

\* the longest command list explored
MaxCmds == 3

CmdPool ==
    {"rm -f /a/x", "rmdir /var/lib/soundcraft-utils",
     "cat>/a/x<<EOF\nX\nEOF"}

CommentPool == {None, "Remove obsolete state directory (if empty)"}

Idle == [op |-> "none"]

NoCalls == [install |-> <<>>, uninstall |-> <<>>]

NoSnap == [init |-> <<>>, first |-> <<>>]

InitScript ==
    /\ sudo_commands = <<>>
    /\ files = <<>>
    /\ fs = <<>>
    /\ chroot = None
    /\ last = Idle
    /\ calls = NoCalls
    /\ hist = <<>>
    /\ snap = NoSnap
    /\ exc = None
    /\ arg = None
    /\ ret = None
    /\ MainIdle

\* SUDO_SCRIPT.add_cmd(cmd, skip_if, comment)
SudoScript_add_cmd ==
    /\ out = None
    /\ Len(sudo_commands) < MaxCmds
    /\ \E cmd \in CmdPool, skip_if \in BOOLEAN, comment \in CommentPool :
          /\ sudo_commands' = add_cmd(sudo_commands, cmd, skip_if, comment)
          /\ last' = [op |-> "add_cmd", skip_if |-> skip_if]
    /\ UNCHANGED <<files, fs, chroot, calls, hist, snap, exc, arg, ret, mainVars>>

\* SUDO_SCRIPT.write(sudo_script_file), at the end of main()
Call_write ==
    /\ out = None
    /\ out' = SudoScript_write(sudo_commands)
    /\ UNCHANGED <<sudo_commands, files, fs, chroot, last, calls, hist, snap,
                   exc, arg, ret, everything, log, pc, sources, timeout>>

NextScript == SudoScript_add_cmd \/ Call_write

SpecScript == InitScript /\ [][NextScript]_vars

\* C1: needs_to_run() is true exactly when some appended command has
\* skip_if = false; false for the empty script and for an all-skippable one.
C1_NeedsToRunIffSomeNotSkipped ==
    needs_to_run(sudo_commands)
        <=> (\E i \in 1..Len(sudo_commands) : ~sudo_commands[i].skip_if)

\* a script of several commands, all skippable but the first
C1_Witness ==
    /\ Len(sudo_commands) = MaxCmds
    /\ ~sudo_commands[1].skip_if
    /\ \A i \in 2..Len(sudo_commands) : sudo_commands[i].skip_if

(***************************************************************************)
(* Specification of the sort key as a pure function                        *)
(***************************************************************************)

\* what precedes and follows the digit run of the two destinations
PrefixPool == {"/a/file", "/a/", "/etc/udev/rules.d/"}
SuffixPool == {"", "-x.rules"}
RunPool == {"2", "7", "10", "02", "99999999", "100000000"}

InitKey ==
    /\ sudo_commands = <<>>
    /\ files = <<>>
    /\ fs = <<>>
    /\ chroot = None
    /\ last = Idle
    /\ calls = NoCalls
    /\ hist = <<>>
    /\ snap = NoSnap
    /\ exc = None
    /\ arg \in [prefix : PrefixPool, suffix : SuffixPool,
                run1 : RunPool, run2 : RunPool]
    /\ ret = None
    /\ MainIdle

KeyFile(run) == [dst |-> arg.prefix \o run \o arg.suffix]

\* FileSetup.destfile_key applied to the two destinations
Call_destfile_key ==
    /\ ret = None
    /\ ret' = <<destfile_key(KeyFile(arg.run1)), destfile_key(KeyFile(arg.run2))>>
    /\ last' = [op |-> "destfile_key"]
    /\ UNCHANGED <<sudo_commands, files, fs, chroot, calls, hist, snap, exc, arg,
                 mainVars>>

NextKey == Call_destfile_key

SpecKey == InitKey /\ [][NextKey]_vars

\* C5: of two destinations that differ in one digit run only, the one whose
\* run has the smaller integer value has the strictly smaller destfile_key,
\* whatever the length of the runs.
C5_KeyIsNumericForEveryLength ==
    ret # None =>
        (StrToInt(arg.run1) < StrToInt(arg.run2) => KeyLess(ret[1], ret[2]))

(***************************************************************************)
(* Specification of one FileSetup: files are registered, then install()    *)
(* and uninstall() run, on a filesystem the environment prepared.          *)
(***************************************************************************)

\* the most files registered and the most setup methods run
MaxFiles == 2
MaxOps == 3

TemplateData == [busname |-> "soundcraft.utils.notepad",
                 dbus_service_bin |-> "/usr/bin/svc"]

\* the files a subsystem may register; two of them share a destination,
\* and /a/file2 and /a/file02 have equal sort keys
FilePool ==
    { StringToFile("/a/file2", "X\nY\n", None),
      StringToFile("/a/file2", "Z\n", "second file2"),
      StringToFile("/a/file02", "X\nY\n", None),
      CopyFile("/a/file10", "/pkg/data/xdg/icon.svg", None),
      TemplateFile("/b/c/x.service", "/pkg/data/dbus-1/x.service",
                   TemplateData, None) }

\* the paths of the filesystem
FsPaths == { StrOf[p] : p \in TreeSpellings }

OldFile == FileNode("old\n", InstalledMode, TRUE)
ForeignFile == FileNode("old\n", InstalledMode, FALSE)
ForeignWritableFile == FileNode("old\n", 438, FALSE)

\* the filesystems a run may start from.  Below the active root: the root
\* is writable or not; /a is missing, writable or not; /a/file2 is absent,
\* the process's own file, or another user's (read-only or writable to
\* all); /a/file10 is absent or the process's own; /b is missing.
InitialTrees(root) ==
    LET at(p) == StrOf[root \o p]
        tree(w, a, f2, f10) ==
            [p \in FsPaths |->
                IF p = at("/") THEN DirNode(w)
                ELSE IF p = "/" THEN DirNode(FALSE)
                ELSE IF p = at("/a") THEN a
                ELSE IF p = at("/a/file2") THEN f2
                ELSE IF p = at("/a/file10") THEN f10
                ELSE NoNode]
    IN  { tree(w, NoNode, NoNode, NoNode) : w \in BOOLEAN }
        \cup { tree(w, DirNode(FALSE), f2, NoNode) :
                 w \in BOOLEAN, f2 \in {NoNode, OldFile} }
        \cup { tree(w, DirNode(TRUE), f2, f10) :
                 w \in BOOLEAN,
                 f2 \in IF root = ""
                        THEN {NoNode, OldFile, ForeignFile, ForeignWritableFile}
                        ELSE {NoNode},
                 f10 \in IF root = "" THEN {NoNode, OldFile} ELSE {NoNode} }

\* a file lies in a directory
WellFormed(f) ==
    \A p \in DOMAIN f : Exists(f, p) => IsDir(f, Path_parent(p))

InitBatch ==
    /\ sudo_commands = <<>>
    /\ files = <<>>
    /\ chroot \in ChrootPool
    /\ fs \in InitialTrees(IF chroot = None THEN "" ELSE chroot)
    /\ WellFormed(fs)
    /\ last = Idle
    /\ calls = NoCalls
    /\ hist = <<>>
    /\ snap = [init |-> fs, first |-> <<>>]
    /\ exc = None
    /\ arg = None
    /\ ret = None
    /\ MainIdle

\* the run's state as a setup method finds it
RunState == [fs |-> fs, cmds |-> sudo_commands, calls |-> <<>>, exc |-> None]

\* self.add_file(file), in a subsystem's constructor
Call_add_file ==
    /\ hist = <<>>
    /\ Len(files) < MaxFiles
    /\ \E file \in FilePool : files' = add_file(files, file)
    /\ last' = [op |-> "add_file"]
    /\ UNCHANGED <<sudo_commands, fs, chroot, calls, hist, snap, exc, arg, ret,
                 mainVars>>

\* what a setup method that returned st leaves behind
Ran(op, st) ==
    /\ fs' = st.fs
    /\ sudo_commands' = st.cmds
    /\ calls' = [calls EXCEPT ![op] = st.calls]
    /\ exc' = st.exc
    /\ hist' = Append(hist, op)
    /\ snap' = IF hist = <<>> THEN [snap EXCEPT !.first = st.fs] ELSE snap
    /\ last' = [op |-> op]
    /\ UNCHANGED <<files, chroot, arg, ret, mainVars>>

\* FileSetup.install()
Call_install ==
    /\ exc = None
    /\ Len(hist) < MaxOps
    /\ Ran("install", FileSetup_install(files, chroot, RunState))

\* FileSetup.uninstall()
Call_uninstall ==
    /\ exc = None
    /\ Len(hist) < MaxOps
    /\ Ran("uninstall", FileSetup_uninstall(files, chroot, RunState))

NextBatch == Call_add_file \/ Call_install \/ Call_uninstall

SpecBatch == InitBatch /\ [][NextBatch]_vars

\* a step that is a run of FileSetup.install / FileSetup.uninstall
InstallStep == hist' = Append(hist, "install")
UninstallStep == hist' = Append(hist, "uninstall")

\* the destinations of the registered files as the run addresses them
Dests == { chroot_dst(files[i], chroot) : i \in 1..Len(files) }

DistinctDsts ==
    \A i, j \in 1..Len(files) : i # j => files[i].dst # files[j].dst

\* the calls in c visit every registered file once
VisitsAll(c) ==
    /\ Len(c) = Len(files)
    /\ \E p \in [1..Len(files) -> 1..Len(files)] :
          /\ \A i, j \in 1..Len(files) : p[i] = p[j] => i = j
          /\ \A i \in 1..Len(files) : c[i][2] = files[p[i]]

\* file i of the calls in c
Visited(c, i) == c[i][2]

\* the setup method op has run
HasRun(op) == \E k \in 1..Len(hist) : hist[k] = op

\* C2: for registered files f1, f2 with destfile_key(f1) < destfile_key(f2),
\* install() calls f1._install() before f2._install() and uninstall() calls
\* f1._uninstall() after f2._uninstall(), whatever the registration order.
C2_CallsFollowKeyOrder ==
    /\ HasRun("install")
         => /\ VisitsAll(calls.install)
            /\ \A i, j \in 1..Len(files) :
                  KeyLess(destfile_key(Visited(calls.install, i)),
                          destfile_key(Visited(calls.install, j))) => i < j
    /\ HasRun("uninstall")
         => /\ VisitsAll(calls.uninstall)
            /\ \A i, j \in 1..Len(files) :
                  KeyLess(destfile_key(Visited(calls.uninstall, i)),
                          destfile_key(Visited(calls.uninstall, j))) => i > j

\* two files registered larger key first, installed and uninstalled
C2_Witness ==
    /\ Len(files) = 2
    /\ KeyLess(destfile_key(files[2]), destfile_key(files[1]))
    /\ Len(calls.install) = 2
    /\ Len(calls.uninstall) = 2

\* C3: the sequence of files uninstall() visits is the strict reverse of the
\* sequence install() visits, also when distinct destinations have equal
\* sort keys.
C3_UninstallIsReverseOfInstall ==
    (DistinctDsts /\ Len(calls.install) = Len(files)
                  /\ Len(calls.uninstall) = Len(files)) =>
        \A i \in 1..Len(files) :
            Visited(calls.uninstall, i)
                = Visited(calls.install, Len(files) + 1 - i)

\* C4: no two registered files share a destination.
C4_NoSharedDestination == DistinctDsts

\* file is at its destination with its payload and mode 0644
OnDisk(f, file, ch) ==
    /\ IsFile(f, chroot_dst(file, ch))
    /\ f[chroot_dst(file, ch)].mode = InstalledMode
    /\ f[chroot_dst(file, ch)].content
         = IF file.cls = "CopyFile" THEN SrcFiles[file.src].content
           ELSE file.content

\* the commands a step appended
Appended == SubSeq(sudo_commands', Len(sudo_commands) + 1, Len(sudo_commands'))

\* C6: install() over n files of which k hit a permission failure raises
\* nothing and appends exactly k commands, each not skippable and carrying
\* the comment of its file; each of the other n-k files is on disk with its
\* payload and mode 0644.
C6_InstallDefersOrWrites ==
    [][InstallStep =>
        /\ exc' = None
        /\ SubSeq(sudo_commands', 1, Len(sudo_commands)) = sudo_commands
        /\ \E K \in SUBSET (1..Len(files)) :
              /\ Len(Appended) = Cardinality(K)
              /\ \A n \in 1..Len(Appended) :
                    /\ ~Appended[n].skip_if
                    /\ \E i \in K :
                          Appended[n].comment = AbstractFile_comment(files[i])
              /\ \A i \in (1..Len(files)) \ K : OnDisk(fs', files[i], chroot)
    ]_vars

\* what one _uninstall() of file owes in the filesystem f: a skippable
\* rm -f when the destination is missing, the deletion and no command when
\* its directory can be written, a non-skippable rm -f otherwise
ExpectedUninstall(f, file, ch) ==
    IF ~Exists(f, chroot_dst(file, ch))
    THEN [fs |-> f,
          cmds |-> <<ScriptCommand("rm -f " \o file.dst, TRUE,
                                   AbstractFile_comment(file))>>]
    ELSE IF f[Path_parent(chroot_dst(file, ch))].writable
    THEN [fs |-> [f EXCEPT ![chroot_dst(file, ch)] = NoNode], cmds |-> <<>>]
    ELSE [fs |-> f,
          cmds |-> <<ScriptCommand("rm -f " \o file.dst, FALSE,
                                   AbstractFile_comment(file))>>]

\* the same for the calls c[i], c[i+1], ... in turn
RECURSIVE ExpectedUninstalls(_, _, _, _)

ExpectedNext(c, i, cmds, e) ==
    ExpectedUninstalls(c, i + 1, e.fs, cmds \o e.cmds)

ExpectedUninstalls(c, i, f, cmds) ==
    IF i > Len(c) THEN [fs |-> f, cmds |-> cmds]
    ELSE ExpectedNext(c, i, cmds, ExpectedUninstall(f, Visited(c, i), chroot))

ContentAt(f, p) == IF IsFile(f, p) THEN f[p].content ELSE None

\* C9: where the operations are permitted, install(); uninstall(); install()
\* leaves every destination with the content a single install() leaves.
C9_InstallUninstallInstall ==
    (hist = <<"install", "uninstall", "install">>
        /\ ~needs_to_run(sudo_commands)) =>
        \A d \in Dests : ContentAt(fs, d) = ContentAt(snap.first, d)

\* the three runs over a destination that held other content before
C9_Witness ==
    /\ hist = <<"install", "uninstall", "install">>
    /\ sudo_commands = <<>>
    /\ \E i \in 1..Len(files) :
          /\ IsFile(snap.init, chroot_dst(files[i], chroot))
          /\ OnDisk(fs, files[i], chroot)
          /\ ContentAt(snap.init, chroot_dst(files[i], chroot))
               # ContentAt(fs, chroot_dst(files[i], chroot))

(***************************************************************************)
(* Specification of SetupUdevRules: install() and uninstall() run on a     *)
(* filesystem the environment prepared, with or without --chroot.          *)
(***************************************************************************)

SameRules == FileNode(udev_rules_content, InstalledMode, FALSE)
OtherRules == FileNode("# older rules\n", InstalledMode, FALSE)
OwnRules == FileNode(udev_rules_content, InstalledMode, TRUE)

\* the filesystems a run may start from.  Below the active root the rules
\* directory is missing, or there and writable or not, with the rules file
\* absent, as install() writes it, or with other content; under --chroot
\* the system's own /etc/udev/rules.d is read-only and holds any of these.
UdevTrees(root) ==
    LET at(p) == StrOf[root \o p]
        tree(w, d, r, sys) ==
            [p \in FsPaths |->
                IF p = at("/") THEN DirNode(w)
                ELSE IF p \in {at("/etc"), at("/etc/udev"),
                               at("/etc/udev/rules.d")} THEN d
                ELSE IF p = at(udev_rules_dst) THEN r
                ELSE IF p \in {"/", "/etc", "/etc/udev", "/etc/udev/rules.d"}
                THEN DirNode(FALSE)
                ELSE IF p = udev_rules_dst THEN sys
                ELSE NoNode]
        systems == IF root = "" THEN {NoNode}
                   ELSE {NoNode, SameRules, OtherRules}
    IN  { tree(w, NoNode, NoNode, sys) : w \in BOOLEAN, sys \in systems }
        \cup { tree(TRUE, DirNode(TRUE), r, sys) :
                 sys \in systems, r \in {NoNode, OwnRules, OtherRules} }
        \cup { tree(TRUE, DirNode(FALSE), r, sys) :
                 sys \in systems, r \in {NoNode, SameRules, OtherRules} }

InitUdev ==
    /\ sudo_commands = <<>>
    /\ files = SetupUdevRules_init
    /\ chroot \in ChrootPool
    /\ fs \in UdevTrees(IF chroot = None THEN "" ELSE chroot)
    /\ WellFormed(fs)
    /\ last = Idle
    /\ calls = NoCalls
    /\ hist = <<>>
    /\ snap = [init |-> fs, first |-> <<>>]
    /\ exc = None
    /\ arg = None
    /\ ret = None
    /\ MainIdle

\* SetupUdevRules.install()
Call_udev_install ==
    /\ exc = None
    /\ Len(hist) < MaxOps
    /\ Ran("install", SetupUdevRules_install(files, chroot, RunState))

\* SetupUdevRules.uninstall()
Call_udev_uninstall ==
    /\ exc = None
    /\ Len(hist) < MaxOps
    /\ Ran("uninstall", SetupUdevRules_uninstall(files, chroot, RunState))

NextUdev == Call_udev_install \/ Call_udev_uninstall

SpecUdev == InitUdev /\ [][NextUdev]_vars

\* C10: install() queues the rule-trigger command last, with skip_if true
\* exactly when the content at the destination it writes was, before the
\* write attempt, the payload: true for a second install of identical
\* content, false over different or absent content.
C10_GateComparesDestination ==
    [][InstallStep =>
        /\ Len(sudo_commands') > Len(sudo_commands)
        /\ sudo_commands'[Len(sudo_commands')].comment
             = "Trigger udev rules which run when adding existing mixer devices"
        /\ sudo_commands'[Len(sudo_commands')].skip_if
             = (ContentAt(fs, chroot_dst(files[1], chroot))
                  = udev_rules_content)
    ]_vars

\* C11: uninstall() queues the rule-trigger command last, with skip_if true
\* when the rules file it removes was not present before the uninstall and
\* false when it was present, deleted directly or not.
C11_GateOnUninstall ==
    [][UninstallStep =>
        /\ Len(sudo_commands') > Len(sudo_commands)
        /\ sudo_commands'[Len(sudo_commands')].comment
             = "Trigger udev rules which run when adding existing mixer devices"
        /\ sudo_commands'[Len(sudo_commands')].skip_if
             = ~Exists(fs, chroot_dst(files[1], chroot))
    ]_vars

\* the path that _install() writes and _uninstall() deletes
WrittenPath == StrOf[(IF chroot = None THEN "" ELSE chroot) \o files[1].dst]

\* old_content as it would be when taken from the path that is written
SnapshotOfWritten ==
    IF IsFile(fs, WrittenPath)
    THEN {<<udev_rules_dst, fs[WrittenPath].content>>}
    ELSE {}

\* C24: with or without a root prefix, what install() and uninstall() read
\* into old_content is the existence and content of the path that the
\* following _install() writes or _uninstall() deletes; an install() over
\* the payload at that path, as a second install finds it, queues the
\* trigger with skip_if = true.
C24_GateSnapshotsWrittenPath ==
    [][(InstallStep \/ UninstallStep) =>
        /\ ReadOldContent(fs).err = None =>
             ReadOldContent(fs).items = SnapshotOfWritten
        /\ (InstallStep /\ exc' = None
              /\ ContentAt(fs, WrittenPath) = udev_rules_content) =>
             sudo_commands'[Len(sudo_commands')].skip_if
    ]_vars

(***************************************************************************)
(* Specification of SetupEverything: subsystems are added, then install()  *)
(* or uninstall() runs over them.                                          *)
(***************************************************************************)

\* the most subsystems added
MaxThings == 3

ThingPool ==
    { [name |-> "CheckDependencies", queues |-> 0],
      [name |-> "SetupObsoleteInstall", queues |-> 2],
      [name |-> "SetupUdevRules", queues |-> 1] }

\* what a call of a subsystem may raise
RaisePool == {None, "ValueError"}

InitEverything ==
    /\ sudo_commands = <<>>
    /\ files = <<>>
    /\ fs = <<>>
    /\ chroot = None
    /\ last = Idle
    /\ calls = NoCalls
    /\ hist = <<>>
    /\ snap = NoSnap
    /\ exc = None
    /\ arg = None
    /\ ret = None
    /\ MainIdle

\* everything.add(thing), in main()
Call_add ==
    /\ hist = <<>>
    /\ Len(everything) < MaxThings
    /\ \E thing \in ThingPool :
          everything' = SetupEverything_add(everything, thing)
    /\ last' = [op |-> "add"]
    /\ UNCHANGED <<sudo_commands, files, fs, chroot, calls, hist, snap, exc,
                   arg, ret, log, out, pc, sources, timeout>>

\* what a run of the orchestrator that returned run leaves behind
RanEverything(op, raises, run) ==
    /\ sudo_commands' = run.cmds
    /\ log' = run.log
    /\ exc' = run.exc
    /\ hist' = Append(hist, op)
    /\ last' = [op |-> op, raises |-> raises]
    /\ UNCHANGED <<files, fs, chroot, calls, snap, arg, ret, everything, out, pc,
                   sources, timeout>>

EverythingRun == [cmds |-> sudo_commands, log |-> log, exc |-> None]

\* everything.install(), in main()
Call_everything_install ==
    /\ hist = <<>>
    /\ \E raises \in [1..Len(everything) -> RaisePool] :
          RanEverything("install", raises,
                        SetupEverything_install(everything, raises,
                                                EverythingRun))

\* everything.uninstall(), in main()
Call_everything_uninstall ==
    /\ hist = <<>>
    /\ \E raises \in [1..Len(everything) -> RaisePool] :
          RanEverything("uninstall", raises,
                        SetupEverything_uninstall(everything, raises,
                                                  EverythingRun))

NextEverything ==
    Call_add \/ Call_everything_install \/ Call_everything_uninstall
        \/ (hist # <<>> /\ exc = None /\ Call_write)

SpecEverything == InitEverything /\ [][NextEverything]_vars

\* the calls of install() / uninstall() in the log, in order
RECURSIVE MethodCalls(_)
MethodCalls(l) ==
    IF l = <<>> THEN <<>>
    ELSE IF Head(l)[1] \in {"install", "uninstall"}
    THEN <<Head(l)>> \o MethodCalls(Tail(l))
    ELSE MethodCalls(Tail(l))

\* the number of subsystems called when raises[i] is what subsystem i
\* raises and they are visited in the order visit
RECURSIVE CalledUntilRaise(_, _, _)
CalledUntilRaise(visit, raises, k) ==
    IF k > Len(visit) THEN Len(visit)
    ELSE IF raises[visit[k]] # None THEN k
    ELSE CalledUntilRaise(visit, raises, k + 1)

\* C12: install() calls install() on the subsystems in the order they were
\* added and uninstall() calls uninstall() on them in the reverse order;
\* the first subsystem that raises is the last one called, its exception
\* leaves the orchestrator, and no subsystem is called twice or with the
\* other method.
C12_OrchestratorOrder ==
    hist # <<>> =>
        LET n     == Len(everything)
            visit == IF hist[1] = "install" THEN [i \in 1..n |-> i]
                     ELSE [i \in 1..n |-> n + 1 - i]
            m     == CalledUntilRaise(visit, last.raises, 1)
        IN  /\ MethodCalls(log) = [k \in 1..m |-> <<hist[1], visit[k]>>]
            /\ exc = IF \E i \in 1..n : last.raises[i] # None
                     THEN last.raises[visit[m]] ELSE None

\* an uninstall() over three subsystems of which the middle one raised
C12_Witness ==
    /\ hist = <<"uninstall">>
    /\ Len(everything) = 3
    /\ exc # None
    /\ MethodCalls(log) = << <<"uninstall", 3>>, <<"uninstall", 2>> >>

(***************************************************************************)
(* The rendered script, read back                                          *)
(***************************************************************************)

\* the lines of the script after the header
BodyLines(text) ==
    SubSeq(splitlines(text), Len(splitlines(ScriptHeader)) + 1,
           Len(splitlines(text)))

\* the lines a shell would execute: not empty, not a comment
RECURSIVE ExecutableLines(_)
ExecutableLines(lines) ==
    IF lines = <<>> THEN <<>>
    ELSE IF Head(lines) = "" \/ Chr(Head(lines), 1) = "#"
    THEN ExecutableLines(Tail(lines))
    ELSE <<Head(lines)>> \o ExecutableLines(Tail(lines))

\* the lines of the commands that are not skipped, in order
RECURSIVE LiveLines(_)
LiveLines(cmds) ==
    IF cmds = <<>> THEN <<>>
    ELSE IF Head(cmds).skip_if THEN LiveLines(Tail(cmds))
    ELSE splitlines(Head(cmds).cmd) \o LiveLines(Tail(cmds))

\* the blocks of lines that empty lines separate
RECURSIVE Blocks(_, _)
Blocks(lines, cur) ==
    IF lines = <<>> THEN (IF cur = <<>> THEN <<>> ELSE <<cur>>)
    ELSE IF Head(lines) = ""
    THEN (IF cur = <<>> THEN <<>> ELSE <<cur>>) \o Blocks(Tail(lines), <<>>)
    ELSE Blocks(Tail(lines), Append(cur, Head(lines)))

\* the owners of the commands appended, from the log
RECURSIVE Owners(_)
Owners(l) ==
    IF l = <<>> THEN <<>>
    ELSE IF Head(l)[1] = "add_cmd" THEN <<Head(l)[2]>> \o Owners(Tail(l))
    ELSE Owners(Tail(l))

\* C13: the rendered script lists the commands in the order they were
\* appended, none dropped or repeated; the commands of one subsystem form
\* one contiguous block and the blocks follow the order the subsystems ran.
C13_RenderOrderIsAppendOrder ==
    out # None =>
        LET blocks == Blocks(BodyLines(out), <<>>)
            owners == Owners(log)
        IN  /\ Len(owners) = Len(sudo_commands)
            /\ IF sudo_commands = <<>>
               THEN blocks = << <<"# No commands to run.">> >>
               ELSE /\ Len(blocks) = Len(sudo_commands)
                    /\ \A k \in 1..Len(blocks) :
                          blocks[k] = <<"# " \o everything[owners[k]].name,
                                        sudo_commands[k].cmd>>
            /\ \A a, b \in 1..Len(owners) :
                  a < b => IF hist[1] = "install" THEN owners[a] <= owners[b]
                           ELSE owners[a] >= owners[b]

\* a script of three commands queued by two subsystems
C13_Witness ==
    /\ out # None
    /\ Len(sudo_commands) = 3
    /\ Owners(log) = <<3, 3, 1>>

\* C14: every line written for a command with skip_if = true is empty or
\* starts with `#`; a command with skip_if = false is written verbatim.
C14_SkippedIsCommentOnly ==
    out # None =>
        /\ ExecutableLines(splitlines(out)) = LiveLines(sudo_commands)
        /\ \A i \in 1..Len(sudo_commands) :
              /\ sudo_commands[i].skip_if =>
                    ExecutableLines(
                        splitlines(ScriptCommand_write(sudo_commands[i]))) = <<>>
              /\ ~sudo_commands[i].skip_if =>
                    ExecutableLines(
                        splitlines(ScriptCommand_write(sudo_commands[i])))
                      = splitlines(sudo_commands[i].cmd)

\* a written script with a skipped command of several lines and one not
\* skipped
C14_Witness ==
    /\ out # None
    /\ \E i, j \in 1..Len(sudo_commands) :
          /\ sudo_commands[i].skip_if
          /\ Len(splitlines(sudo_commands[i].cmd)) > 1
          /\ ~sudo_commands[j].skip_if

(***************************************************************************)
(* Specification of the sudo script: subsystems run as main() runs them,   *)
(* the script is written, and root executes it, once and once more.        *)
(***************************************************************************)

\* the paths of these filesystems
SudoPaths == FsPaths \cup SystemNames

\* the filesystems a run may start from, all owned by root.  /a is missing
\* or there, with /a/file2 absent or there; the udev rules file is absent
\* or there; the obsolete state directory is missing, empty or not empty;
\* of the obsolete files none or one is left.
SudoTrees ==
    LET tree(a, f2, rules, statedir, state, obsolete) ==
            [p \in SudoPaths |->
                IF p \in {"/", "/etc", "/etc/udev", "/etc/udev/rules.d",
                          "/var", "/var/lib", "/usr", "/usr/share",
                          "/usr/share/dbus-1", "/usr/share/dbus-1/system.d",
                          "/usr/share/dbus-1/system-services", "/usr/local",
                          "/usr/local/bin", "/usr/bin"}
                THEN DirNode(FALSE)
                ELSE IF p = "/a" THEN a
                ELSE IF p = "/a/file2" THEN f2
                ELSE IF p = udev_rules_dst THEN rules
                ELSE IF p = old_statedir THEN statedir
                ELSE IF p = "/var/lib/soundcraft-utils/state.json" THEN state
                ELSE IF p = obsolete_files[4] THEN obsolete
                ELSE NoNode]
    IN  { tree(a[1], a[2], rules, st[1], st[2], obsolete) :
            a \in { <<NoNode, NoNode>>, <<DirNode(FALSE), NoNode>>,
                    <<DirNode(FALSE), ForeignFile>> },
            rules \in {NoNode, OtherRules},
            st \in { <<NoNode, NoNode>>, <<DirNode(FALSE), NoNode>>,
                     <<DirNode(FALSE), ForeignFile>> },
            obsolete \in {NoNode, ForeignFile} }

InitSudo ==
    /\ sudo_commands = <<>>
    /\ files \in {<<>>, SetupUdevRules_init}
    /\ chroot = None
    /\ fs \in SudoTrees
    /\ WellFormed(fs)
    /\ last = Idle
    /\ calls = NoCalls
    /\ hist = <<>>
    /\ snap = [init |-> fs, first |-> <<>>]
    /\ exc = None
    /\ arg = None
    /\ ret = <<>>
    /\ MainIdle

\* SetupObsoleteInstall.install() / uninstall()
Call_check_install ==
    /\ hist = <<>>
    /\ out = None
    /\ \E running \in BOOLEAN :
          LET r == check_install(chroot, running,
                                 [fs |-> fs, cmds |-> sudo_commands,
                                  log |-> log, exc |-> None])
          IN  sudo_commands' = r.cmds /\ log' = r.log
    /\ hist' = Append(hist, "check_install")
    /\ last' = [op |-> "check_install"]
    /\ UNCHANGED <<files, fs, chroot, calls, snap, exc, arg, ret, everything,
                   out, pc, sources, timeout>>

\* the one FileSetup of the run has not been called yet
FileSetupNotRun ==
    /\ out = None
    /\ \A k \in 1..Len(hist) : hist[k] = "check_install"

\* sudo sh <the written script>
Run_script ==
    /\ out # None
    /\ Len(ret) < 2
    /\ fs' = sh_run(out, fs).fs
    /\ ret' = Append(ret, sh_run(out, fs).status)
    /\ snap' = IF ret = <<>> THEN [snap EXCEPT !.first = sh_run(out, fs).fs]
               ELSE snap
    /\ last' = [op |-> "sh"]
    /\ UNCHANGED <<sudo_commands, files, chroot, calls, hist, exc, arg,
                   mainVars>>

NextSudo ==
    \/ (files # SetupUdevRules_init /\ Call_add_file)
    \/ Call_check_install
    \/ (files # SetupUdevRules_init /\ FileSetupNotRun /\ Call_install)
    \/ (files # SetupUdevRules_init /\ FileSetupNotRun /\ Call_uninstall)
    \/ (files = SetupUdevRules_init /\ FileSetupNotRun /\ Call_udev_install)
    \/ (files = SetupUdevRules_init /\ FileSetupNotRun /\ Call_udev_uninstall)
    \/ (hist # <<>> /\ exc = None /\ Call_write)
    \/ Run_script

SpecSudo == InitSudo /\ [][NextSudo]_vars

\* the exit statuses of the commands of the k-th execution of the script
AllSucceed(status) == \A k \in 1..Len(status) : status[k] = 0

\* C15: executing the rendered script twice in a row leaves the filesystem
\* the first execution left, and no command of the second execution fails.
C15_ScriptIsIdempotent ==
    Len(ret) = 2 => (fs = snap.first /\ AllSucceed(ret[2]))

\* the FileSetup was installed and root has executed the written script
InstalledByRoot == "install" \in { hist[k] : k \in 1..Len(hist) } /\ ret # <<>>

\* C16: after root executed the script of an install, every registered
\* file's destination is present, as after a successful direct install,
\* whether or not its parent directory existed before.
C16_FragmentCreatesParent ==
    InstalledByRoot =>
        \A k \in 1..Len(files) : IsFile(fs, chroot_dst(files[k], chroot))

(***************************************************************************)
(* DataFileSetup, SetupDBus and SetupXDGDesktop: the constructors walk the  *)
(* package's data files and register an installable file for each.         *)
(***************************************************************************)

\* soundcraft.constants
BUSNAME == "soundcraft.utils.notepad"
APPLICATION_ID == "soundcraft.utils"

\* get_dirs().datadir, .serviceExePath and .guiExePath
datadir == "/b"
serviceExePath == "/usr/bin/soundcraft_dbus_service"
guiExePath == "/usr/bin/soundcraft_gui"

\* Path(p).name
Path_name(p) == PathParts(p)[Len(PathParts(p))]

\* s.rfind("."), counted from 1; 0 if there is no dot
LastDot(s) ==
    IF \E i \in 1..Len(s) : Chr(s, i) = "."
    THEN CHOOSE i \in 1..Len(s) :
             /\ Chr(s, i) = "."
             /\ \A j \in (i + 1)..Len(s) : Chr(s, j) # "."
    ELSE 0

\* the suffix of a file name: from the last dot on, unless that dot is the
\* first or the last character
NameSuffix(name) ==
    IF LastDot(name) > 1 /\ LastDot(name) < Len(name)
    THEN SubSeq(name, LastDot(name), Len(name))
    ELSE ""

\* Path(p).suffix
Path_suffix(p) == NameSuffix(Path_name(p))

\* Path(p).suffixes[-2]: the suffix of the name without its suffix; there is
\* none (IndexError) when the name has fewer than two suffixes
SecondSuffix(name) ==
    NameSuffix(SubSeq(name, 1, LastDot(name) - 1))

\* int(s, 10) accepts s: decimal digits only
IsDecimal(s) == s # "" /\ \A i \in 1..Len(s) : IsDigit(Chr(s, i))

\* TemplateFile.__init__: what substitute() raises, None if nothing
Lenient_TemplateFile_raises(src, template_data) == None

TemplateFile_raises(src, template_data) ==
    Template_substitute(SrcFiles[src].content, template_data).err

\* a constructor's state: the files registered and the exception raised
Registering(registered) == [files |-> registered, err |-> None]

\* self.add_file(TemplateFile(dst, src, template_data)) once substitute()
\* raised e
AddTemplateFile(registered, dst, src, template_data, e) ==
    IF e # None THEN [files |-> registered, err |-> e]
    ELSE Registering(add_file(registered,
                              TemplateFile(dst, src, template_data, None)))

\* SetupDBus.add_src
SetupDBus_templateData ==
    [dbus_service_bin |-> serviceExePath, busname |-> BUSNAME]

service_dst == datadir \o "/" \o "dbus-1/services" \o "/" \o BUSNAME \o ".service"

Skipping_SetupDBus_add_src(registered, src) ==
    IF Path_suffix(src) = ".service"
    THEN AddTemplateFile(registered, service_dst, src, SetupDBus_templateData,
                         TemplateFile_raises(src, SetupDBus_templateData))
    ELSE Registering(registered)

SetupDBus_add_src(registered, src) ==
    IF Path_suffix(src) = ".service"
    THEN AddTemplateFile(registered, service_dst, src, SetupDBus_templateData,
                         TemplateFile_raises(src, SetupDBus_templateData))
    ELSE [files |-> registered, err |-> "UnhandledDataFile"]

\* SetupXDGDesktop.icondir(size) and icondir()
icondir_size(size) ==
    datadir \o "/" \o "icons/hicolor/" \o size \o "x" \o size \o "/apps"

icondir == datadir \o "/" \o "icons/hicolor/scalable/apps"

SetupXDGDesktop_templateData ==
    [gui_bin |-> guiExePath, APPLICATION_ID |-> APPLICATION_ID]

desktop_dst == datadir \o "/" \o "applications" \o "/" \o APPLICATION_ID \o ".desktop"

\* the .png branch of SetupXDGDesktop.add_src, size_suffix being
\* src.suffixes[-2]
AddPng(registered, src, size_suffix) ==
    IF size_suffix = "" THEN [files |-> registered, err |-> "IndexError"]
    ELSE IF ~IsDecimal(SubSeq(size_suffix, 2, Len(size_suffix)))
    THEN [files |-> registered, err |-> "ValueError"]
    ELSE Registering(add_file(registered,
             CopyFile(icondir_size(IntToStr(StrToInt(
                          SubSeq(size_suffix, 2, Len(size_suffix)))))
                        \o "/" \o APPLICATION_ID \o ".png",
                      src, None)))

\* SetupXDGDesktop.add_src
SetupXDGDesktop_add_src(registered, src) ==
    IF Path_suffix(src) = ".desktop"
    THEN AddTemplateFile(registered, desktop_dst, src,
                         SetupXDGDesktop_templateData,
                         TemplateFile_raises(src, SetupXDGDesktop_templateData))
    ELSE IF Path_suffix(src) = ".png"
    THEN AddPng(registered, src, SecondSuffix(Path_name(src)))
    ELSE IF Path_suffix(src) = ".svg"
    THEN Registering(add_file(registered,
             CopyFile(icondir \o "/" \o APPLICATION_ID \o ".svg", src, None)))
    ELSE [files |-> registered, err |-> "UnhandledDataFile"]

\* self.add_src(src) of the subsystem class cls
add_src(cls, registered, src) ==
    IF cls = "SetupDBus" THEN SetupDBus_add_src(registered, src)
    ELSE SetupXDGDesktop_add_src(registered, src)

\* DataFileSetup.walk_through_data_files: the loop over the sources found,
\* from index i on; an exception ends it
RECURSIVE WalkFrom(_, _, _, _)
WalkFrom(cls, found, i, r) ==
    IF i > Len(found) \/ r.err # None THEN r
    ELSE IF Chr(found[i], Len(found[i])) = "~"
    THEN WalkFrom(cls, found, i + 1, r)
    ELSE WalkFrom(cls, found, i + 1, add_src(cls, r.files, found[i]))

walk_through_data_files(cls, found) ==
    WalkFrom(cls, found, 1, Registering(<<>>))

\* SetupDBus.__init__ and SetupXDGDesktop.__init__, finding the files found
SetupDBus_init(found) == walk_through_data_files("SetupDBus", found)

SetupXDGDesktop_init(found) == walk_through_data_files("SetupXDGDesktop", found)

(***************************************************************************)
(* The subsystems' install() and uninstall() as main() runs them.  A run   *)
(* state st holds the filesystem, the script's commands, the _install and  *)
(* _uninstall calls of the FileSetup at work, the exception raised and the *)
(* log of service-control calls and file events.                           *)
(***************************************************************************)

\* Python's truth value of an optional string
Truthy(x) == x # None /\ x # ""

\* the calls of a FileSetup, moved to the log as <<method, destination>>
Logged(st) ==
    [st EXCEPT !.log = @ \o [i \in 1..Len(st.calls) |->
                                <<st.calls[i][1], st.calls[i][2].dst>>],
               !.calls = <<>>]

\* CheckDependencies.install: `missing` is what the imports raise
CheckDependencies_install(ch, missing, st) ==
    IF Truthy(ch) THEN st
    ELSE IF missing # None THEN [st EXCEPT !.exc = missing]
    ELSE st

\* CheckDependencies.uninstall
CheckDependencies_uninstall(st) == st

\* the first block of SetupDBus.install and of SetupDBus.uninstall: shut
\* down the service if it runs, `running` being NameHasOwner's answer
ShutdownOld(no_launch, running, st) ==
    IF no_launch THEN st
    ELSE IF running
    THEN [st EXCEPT !.log = @ \o << <<"SessionBus", "get">>,
                                    <<"SessionBus", "NameHasOwner">>,
                                    <<"SessionBus", "get">>,
                                    <<"SessionBus", "Shutdown">> >>]
    ELSE [st EXCEPT !.log = @ \o << <<"SessionBus", "get">>,
                                    <<"SessionBus", "NameHasOwner">> >>]

\* an install that writes the service files first and stops the old
\* service afterwards
Late_SetupDBus_install(thing, ch, running, st) ==
    ShutdownOld(thing.no_launch, running,
                Logged(FileSetup_install(thing.files, ch, st)))

\* SetupDBus.install up to the retry loop
SetupDBus_install(thing, ch, running, st) ==
    Logged(FileSetup_install(thing.files, ch,
                             ShutdownOld(thing.no_launch, running, st)))

\* SetupDBus.uninstall
SetupDBus_uninstall(thing, ch, running, st) ==
    Logged(FileSetup_uninstall(thing.files, ch,
                               ShutdownOld(thing.no_launch, running, st)))

\* timeout = 5
TimeoutBudget == 5

\* the except clause of the retry loop, entered with `timeout` = t when
\* StartServiceByName raised e; l is the log
Swallowing_except(t, e, l) ==
    IF t = 0 THEN [timeout |-> t, log |-> l, exc |-> None, again |-> FALSE]
    ELSE [timeout |-> t - 1, log |-> Append(l, <<"time.sleep", "1">>),
          exc |-> None, again |-> TRUE]

StartServiceByName_except(t, e, l) ==
    IF t = 0 THEN [timeout |-> t, log |-> l, exc |-> e, again |-> FALSE]
    ELSE [timeout |-> t - 1, log |-> Append(l, <<"time.sleep", "1">>),
          exc |-> None, again |-> TRUE]

\* one pass of the loop body: e is what StartServiceByName raises (None: it
\* returns, and the loop is left by break)
StartServiceByName_try(t, e, l) ==
    IF e = None
    THEN [timeout |-> t, exc |-> None, again |-> FALSE,
          log |-> Append(l, <<"SessionBus", "StartServiceByName">>)]
    ELSE StartServiceByName_except(
             t, e, Append(l, <<"SessionBus", "StartServiceByName">>))

\* SetupDBus.install after the loop: the started service is shut down
ShutdownStarted(l) ==
    l \o << <<"SessionBus", "get">>, <<"SessionBus", "Shutdown">> >>

\* AbstractSetup.install / uninstall of a subsystem; env holds what the
\* environment answers
Subsystem_call(method, thing, ch, env, st) ==
    IF thing.name = "CheckDependencies"
    THEN IF method = "install"
         THEN CheckDependencies_install(ch, env.missing, st)
         ELSE CheckDependencies_uninstall(st)
    ELSE IF thing.name = "SetupObsoleteInstall"
    THEN check_install(ch, env.running_old, st)
    ELSE IF thing.name = "SetupDBus"
    THEN IF method = "install"
         THEN SetupDBus_install(thing, ch, env.running, st)
         ELSE SetupDBus_uninstall(thing, ch, env.running, st)
    ELSE IF thing.name = "SetupXDGDesktop"
    THEN IF method = "install"
         THEN Logged(FileSetup_install(thing.files, ch, st))
         ELSE Logged(FileSetup_uninstall(thing.files, ch, st))
    ELSE IF method = "install"
         THEN Logged(SetupUdevRules_install(thing.files, ch, st))
         ELSE Logged(SetupUdevRules_uninstall(thing.files, ch, st))

(***************************************************************************)
(* Specification of main(): the arguments are checked, the directories     *)
(* initialised, the subsystems constructed and then called one after the   *)
(* other, SetupDBus.install() pausing in its retry loop, and the script is *)
(* written.                                                                *)
(***************************************************************************)

\* the command lines: --install or --uninstall, [--no-launch],
\* [--chroot /r], [--sudo-script - | /a/script.sh]
ArgPool ==
    [install : BOOLEAN, no_launch : BOOLEAN, chroot : ChrootPool,
     sudo_script : {None, "-", "/a/script.sh"}]

\* what findDataFiles("dbus-1") and findDataFiles("xdg") may find: the
\* package's files, with editor backups, with a template that names a
\* placeholder nobody supplies, with files of no known kind, and with two
\* service files
SourcesPool ==
    { [dbus |-> <<"/pkg/data/dbus-1/x.service">>,
       xdg |-> <<"/pkg/data/xdg/x.desktop", "/pkg/data/xdg/icon.svg">>],
      [dbus |-> <<"/pkg/data/dbus-1/x.service~", "/pkg/data/dbus-1/x.service">>,
       xdg |-> <<"/pkg/data/xdg/icon.16.png", "/pkg/data/xdg/x.desktop~",
                 "/pkg/data/xdg/x.desktop">>],
      [dbus |-> <<"/pkg/data/dbus-1/y.service">>,
       xdg |-> <<"/pkg/data/xdg/x.desktop">>],
      [dbus |-> <<"/pkg/data/dbus-1/x.service", "/pkg/data/dbus-1/x.conf">>,
       xdg |-> <<"/pkg/data/xdg/x.desktop">>],
      [dbus |-> <<"/pkg/data/dbus-1/x.service">>,
       xdg |-> <<"/pkg/data/xdg/icon.svg", "/pkg/data/xdg/README">>],
      [dbus |-> <<"/pkg/data/dbus-1/x.service", "/pkg/data/dbus-1/n.service">>,
       xdg |-> <<"/pkg/data/xdg/x.desktop">>] }

\* what the environment answers to one subsystem call
EnvPool ==
    [missing : {None, "ModuleNotFoundError"}, running_old : BOOLEAN,
     running : BOOLEAN]

\* what StartServiceByName may raise
GLibErrors == {"GLib.Error: ServiceUnknown", "GLib.Error: NoReply"}

\* the paths of these filesystems
MainPaths == { StrOf[p] : p \in SpelledPaths }

\* the filesystems a run may start from.  The system directories belong to
\* root; /a, where the script goes, and the staging directory /r are the
\* user's; the data directory /b is the user's and empty, or root's and
\* empty, or the user's and holds an earlier install; the udev rules file
\* and the obsolete state directory are both absent or both there.
MainTrees ==
    LET installed == {service_dst, desktop_dst,
                      icondir \o "/" \o APPLICATION_ID \o ".svg"}
        below(p, q) == Len(p) > Len(q) /\ SubSeq(p, 1, Len(q) + 1) = q \o "/"
        tree(b, old) ==
            [p \in MainPaths |->
                IF p \in {"/", "/etc", "/etc/udev", "/etc/udev/rules.d",
                          "/var", "/var/lib", "/usr", "/usr/share",
                          "/usr/share/dbus-1", "/usr/share/dbus-1/system.d",
                          "/usr/share/dbus-1/system-services", "/usr/local",
                          "/usr/local/bin", "/usr/bin"}
                THEN DirNode(FALSE)
                ELSE IF p \in {"/a", "/r"} THEN DirNode(TRUE)
                ELSE IF p = datadir THEN DirNode(b # "root")
                ELSE IF b = "installed" /\ p \in installed THEN OldFile
                ELSE IF b = "installed"
                        /\ \E q \in installed : below(q, p)
                THEN DirNode(TRUE)
                ELSE IF old /\ p = udev_rules_dst THEN SameRules
                ELSE IF old /\ p = old_statedir THEN DirNode(FALSE)
                ELSE NoNode]
    IN  { tree(b, old) : b \in {"user", "root", "installed"}, old \in BOOLEAN }

InitMain ==
    /\ sudo_commands = <<>>
    /\ files = <<>>
    /\ chroot = None
    /\ fs \in MainTrees
    /\ WellFormed(fs)
    /\ last = Idle
    /\ calls = NoCalls
    /\ hist = <<>>
    /\ snap = [init |-> fs, first |-> <<>>]
    /\ exc = None
    /\ arg \in ArgPool
    /\ ret = <<>>
    /\ everything = <<>>
    /\ log = <<>>
    /\ out = None
    /\ pc = "main"
    /\ sources \in SourcesPool
    /\ timeout = NoTimeout

\* if args.chroot and args.sudo_script
Ignored_ConflictingOptions(args) == FALSE

ConflictingOptions(args) == Truthy(args.chroot) /\ Truthy(args.sudo_script)

\* main() from parse_args() to the check of the conflicting options
Main_parse_args ==
    /\ pc = "main"
    /\ arg' = IF Truthy(arg.chroot) THEN [arg EXCEPT !.no_launch = TRUE]
              ELSE arg
    /\ IF ConflictingOptions(arg)
       THEN pc' = "exit" /\ ret' = <<2>>
       ELSE pc' = "init_dirs" /\ ret' = ret
    /\ last' = [op |-> "parse_args"]
    /\ UNCHANGED <<sudo_commands, files, fs, chroot, calls, hist, snap, exc,
                   everything, log, out, sources, timeout>>

\* dirs = init_dirs(chroot=args.chroot)
Main_init_dirs ==
    /\ pc = "init_dirs"
    /\ chroot' = arg.chroot
    /\ log' = Append(log, <<"init_dirs", arg.chroot>>)
    /\ pc' = "construct"
    /\ last' = [op |-> "init_dirs"]
    /\ UNCHANGED <<sudo_commands, files, fs, calls, hist, snap, exc, arg, ret,
                   everything, out, sources, timeout>>

\* a subsystem as SetupEverything holds it
Thing(name, registered, no_launch) ==
    [name |-> name, files |-> registered, no_launch |-> no_launch]

\* the five everything.add(...) lines of main(), the constructors of
\* SetupDBus and SetupXDGDesktop having returned dbus and xdg
Constructed(dbus, xdg) ==
    IF dbus.err # None
    THEN /\ everything' = <<Thing("CheckDependencies", <<>>, None),
                            Thing("SetupObsoleteInstall", <<>>, None)>>
         /\ exc' = dbus.err
         /\ pc' = "exit" /\ ret' = <<1>>
    ELSE IF xdg.err # None
    THEN /\ everything' = <<Thing("CheckDependencies", <<>>, None),
                            Thing("SetupObsoleteInstall", <<>>, None),
                            Thing("SetupDBus", dbus.files, arg.no_launch)>>
         /\ exc' = xdg.err
         /\ pc' = "exit" /\ ret' = <<1>>
    ELSE /\ everything' = <<Thing("CheckDependencies", <<>>, None),
                            Thing("SetupObsoleteInstall", <<>>, None),
                            Thing("SetupDBus", dbus.files, arg.no_launch),
                            Thing("SetupXDGDesktop", xdg.files, None),
                            Thing("SetupUdevRules", SetupUdevRules_init, None)>>
         /\ exc' = exc
         /\ pc' = "run" /\ ret' = ret

Main_construct ==
    /\ pc = "construct"
    /\ Constructed(SetupDBus_init(sources.dbus),
                   SetupXDGDesktop_init(sources.xdg))
    /\ last' = [op |-> "construct"]
    /\ UNCHANGED <<sudo_commands, files, fs, chroot, calls, hist, snap, arg,
                   log, out, sources, timeout>>

\* the run state a subsystem is called in
MainRun ==
    [fs |-> fs, cmds |-> sudo_commands, calls |-> <<>>, exc |-> None,
     log |-> log]

\* the index of the subsystem everything.install() / uninstall() calls next
NextThing ==
    IF arg.install THEN Len(hist) + 1 ELSE Len(everything) - Len(hist)

\* what the call of `thing`, which returned st, leaves behind
AfterCall(thing, st) ==
    /\ fs' = st.fs
    /\ sudo_commands' = st.cmds
    /\ log' = Append(log, <<IF arg.install THEN "install" ELSE "uninstall",
                            thing.name>>) \o SubSeq(st.log, Len(log) + 1, Len(st.log))
    /\ exc' = st.exc
    /\ IF st.exc # None
       THEN pc' = "exit" /\ ret' = <<1>> /\ hist' = hist /\ timeout' = timeout
       ELSE IF arg.install /\ thing.name = "SetupDBus" /\ ~thing.no_launch
       THEN /\ pc' = "StartServiceByName" /\ timeout' = TimeoutBudget
            /\ ret' = ret /\ hist' = hist
       ELSE /\ pc' = "run" /\ hist' = Append(hist, thing.name)
            /\ ret' = ret /\ timeout' = timeout

\* one pass of the loop of SetupEverything.install() / uninstall()
Main_everything_next ==
    /\ pc = "run"
    /\ Len(hist) < Len(everything)
    /\ \E env \in EnvPool :
          AfterCall(everything[NextThing],
                    Subsystem_call(IF arg.install THEN "install" ELSE "uninstall",
                                   everything[NextThing], chroot, env, MainRun))
    /\ last' = [op |-> "call", thing |-> everything[NextThing].name]
    /\ UNCHANGED <<files, chroot, calls, snap, arg, everything, out, sources>>

\* what one pass of the retry loop, which returned r, leaves behind
AfterTry(r) ==
    /\ timeout' = r.timeout
    /\ exc' = r.exc
    /\ IF r.again THEN log' = r.log /\ pc' = pc /\ ret' = ret /\ hist' = hist
       ELSE IF r.exc # None
       THEN log' = r.log /\ pc' = "exit" /\ ret' = <<1>> /\ hist' = hist
       ELSE /\ log' = ShutdownStarted(r.log)
            /\ pc' = "run" /\ ret' = ret
            /\ hist' = Append(hist, "SetupDBus")

\* one pass of the retry loop of SetupDBus.install()
Main_StartServiceByName ==
    /\ pc = "StartServiceByName"
    /\ \E e \in {None} \cup GLibErrors :
          /\ AfterTry(StartServiceByName_try(timeout, e, log))
          /\ last' = [op |-> "StartServiceByName", raises |-> e,
                      timeout |-> timeout]
    /\ UNCHANGED <<sudo_commands, files, fs, chroot, calls, snap, arg,
                   everything, out, sources>>

\* p.chmod(0o0755)
ScriptMode == 493

\* sudo_script_file = open(args.sudo_script, "w"); p.chmod(0o0755); then
\* SUDO_SCRIPT.write(sudo_script_file), r being what open() returned
OpenedScript(r, text) ==
    IF r.err # None
    THEN fs' = r.fs /\ exc' = r.err /\ out' = out /\ ret' = <<1>>
    ELSE IF Path_chmod(r.fs, arg.sudo_script, ScriptMode).err # None
    THEN /\ fs' = r.fs
         /\ exc' = Path_chmod(r.fs, arg.sudo_script, ScriptMode).err
         /\ out' = out /\ ret' = <<1>>
    ELSE /\ fs' = [Path_chmod(r.fs, arg.sudo_script, ScriptMode).fs
                     EXCEPT ![arg.sudo_script].content = text]
         /\ exc' = exc /\ out' = text /\ ret' = <<0>>

\* main() after everything.install() / uninstall() returned
Main_script ==
    /\ pc = "run"
    /\ Len(hist) = Len(everything)
    /\ pc' = "exit"
    /\ IF Truthy(arg.chroot)
       THEN ret' = <<0>> /\ UNCHANGED <<fs, exc, out, log>>
       ELSE /\ IF arg.sudo_script = None \/ arg.sudo_script \in {"", "-"}
               THEN /\ out' = SudoScript_write(sudo_commands)
                    /\ ret' = <<0>>
                    /\ UNCHANGED <<fs, exc>>
               ELSE OpenedScript(open_w(fs, arg.sudo_script, ""),
                                 SudoScript_write(sudo_commands))
            /\ log' = Append(log,
                        IF ~needs_to_run(sudo_commands)
                        THEN <<"print", "No commands left over to run with sudo. Good.">>
                        ELSE <<"print", "script">>)
    /\ last' = [op |-> "script"]
    /\ UNCHANGED <<sudo_commands, files, chroot, calls, hist, snap, arg,
                   everything, sources, timeout>>

NextMain ==
    \/ Main_parse_args
    \/ Main_init_dirs
    \/ Main_construct
    \/ Main_everything_next
    \/ Main_StartServiceByName
    \/ Main_script

SpecMain == InitMain /\ [][NextMain]_vars

\* the interpreter does not stop inside the retry loop: a pass that can
\* run does run
SpecMainLive == SpecMain /\ WF_vars(Main_StartServiceByName)

\* the positions of the StartServiceByName calls in the log
Attempts(l) ==
    { i \in 1..Len(l) : l[i] = <<"SessionBus", "StartServiceByName">> }

\* a pass of the retry loop has just run
JustTried == last.op = "StartServiceByName"

\* the loop makes at most six attempts; every attempt but the first comes
\* right after a one-second sleep that follows the attempt before it
BoundedRetries ==
    /\ Cardinality(Attempts(log)) <= 6
    /\ \A i \in Attempts(log) :
          \/ \A j \in Attempts(log) : j >= i
          \/ /\ log[i - 1] = <<"time.sleep", "1">>
             /\ (i - 2) \in Attempts(log)
    /\ \A i \in 1..Len(log) :
          log[i] = <<"time.sleep", "1">> => (i - 1) \in Attempts(log)

\* a successful attempt leaves the loop; a failed one is retried while the
\* budget lasts, and the last failure is raised to the caller as it is
LoopOutcome ==
    JustTried =>
        /\ last.raises = None => (pc = "run" /\ exc = None)
        /\ (last.raises # None /\ last.timeout > 0)
              => (pc = "StartServiceByName" /\ exc = None)
        /\ (last.raises # None /\ last.timeout = 0)
              => (pc = "exit" /\ exc = last.raises /\ ret \notin {<<>>, <<0>>}
                  /\ Cardinality(Attempts(log)) = 6)

\* C17: the retry loop of SetupDBus.install() ends: at most the initial
\* attempt and 5 retries, each retry after a one-second sleep; it is left
\* at the first success, and when every attempt failed the last error is
\* what the caller gets.
C17_RetryLoopIsBounded ==
    /\ [](BoundedRetries /\ LoopOutcome)
    /\ (pc = "StartServiceByName") ~> (pc # "StartServiceByName")

\* all six attempts failed and the last error ended the run
C17_Witness ==
    /\ JustTried
    /\ pc = "exit"
    /\ exc \in GLibErrors
    /\ Cardinality(Attempts(log)) = 6

\* C18: given both --chroot and --sudo-script, main() ends with a non-zero
\* exit status right after parsing: no directory is initialised, no
\* subsystem constructed, no file written or deleted, no command queued
\* and no service-control call made.
C18_ConflictRejectedFirst ==
    (Truthy(arg.chroot) /\ Truthy(arg.sudo_script)) =>
        /\ pc \in {"main", "exit"}
        /\ pc = "exit" => (ret # <<>> /\ ret # <<0>>)
        /\ chroot = None
        /\ everything = <<>>
        /\ fs = snap.init
        /\ sudo_commands = <<>>
        /\ log = <<>>
        /\ out = None

\* the run with both options has ended
C18_Witness ==
    /\ Truthy(arg.chroot) /\ Truthy(arg.sudo_script)
    /\ last.op = "parse_args"
    /\ pc = "exit"
    /\ ret = <<2>>

\* a source that is not a backup file
Live(found) == { found[i] : i \in { j \in 1..Len(found) :
                    Chr(found[j], Len(found[j])) # "~" } }

\* the service template found names a placeholder SetupDBus does not supply
UnresolvedPlaceholder == "/pkg/data/dbus-1/y.service" \in Live(sources.dbus)

HasDollar(s) == \E i \in 1..Len(s) : Chr(s, i) = "$"

\* the file events in the log
FileEvents(l) == { i \in 1..Len(l) : l[i][1] \in {"_install", "_uninstall"} }

\* C19: a template with a placeholder that the mapping lacks makes the
\* constructor raise, before install() or uninstall() of any subsystem
\* runs: nothing is written, deleted or queued; and no file is registered
\* or on disk with a placeholder left in it.
C19_UnresolvedPlaceholderFailsFast ==
    /\ UnresolvedPlaceholder =>
          /\ pc \in {"main", "init_dirs", "construct", "exit"}
          /\ fs = snap.init
          /\ sudo_commands = <<>>
          /\ FileEvents(log) = {}
          /\ out = None
          /\ (pc = "exit" /\ ~ConflictingOptions(arg))
                => (exc = "KeyError" /\ ret # <<>> /\ ret # <<0>>)
    /\ \A k \in 1..Len(everything) : \A i \in 1..Len(everything[k].files) :
          everything[k].files[i].cls = "TemplateFile"
             => ~HasDollar(everything[k].files[i].content)
    /\ \A p \in DataSpellings :
          IsFile(fs, p) => ~HasDollar(fs[p].content)

\* the constructor of SetupDBus raised KeyError and ended the run
C19_Witness ==
    /\ UnresolvedPlaceholder
    /\ last.op = "construct"
    /\ pc = "exit"
    /\ exc = "KeyError"

\* every source the two walks found
Found == { sources.dbus[i] : i \in 1..Len(sources.dbus) }
            \cup { sources.xdg[i] : i \in 1..Len(sources.xdg) }

\* the constructors have run
Walked == pc \in {"run", "StartServiceByName", "exit"} /\ everything # <<>>

\* is a file registered for the source
IsRegistered(src) ==
    \E k \in 1..Len(everything) :
       \E i \in 1..Len(everything[k].files) :
          /\ everything[k].files[i].cls \in {"CopyFile", "TemplateFile"}
          /\ everything[k].files[i].src = src

\* C20 as stated: every source file found is either registered as an
\* installable file or makes the walk raise UnhandledDataFile.
C20_NoSourceSkipped ==
    Walked =>
        \/ exc = "UnhandledDataFile"
        \/ \A src \in Found : IsRegistered(src)

\* the suffixes add_src knows in each data subdirectory
KnownKind(src) ==
    \/ src \in { sources.dbus[i] : i \in 1..Len(sources.dbus) }
         /\ Path_suffix(src) = ".service"
    \/ src \in { sources.xdg[i] : i \in 1..Len(sources.xdg) }
         /\ Path_suffix(src) \in {".desktop", ".png", ".svg"}

\* the constructors raised: the run is over and has done nothing yet
AbortedEarly ==
    /\ pc = "exit"
    /\ ret # <<>> /\ ret # <<0>>
    /\ fs = snap.init
    /\ sudo_commands = <<>>
    /\ FileEvents(log) = {}
    /\ out = None

\* C20 amended: sources whose path ends in "~" are ignored; for every other
\* source found either a file is registered or the walk raises at once
\* (UnhandledDataFile for a file of no known kind, the constructor's own
\* error otherwise) and the run ends before any install side effect.
C20_NoLiveSourceSkipped ==
    Walked =>
        /\ \A src \in Found \ (Live(sources.dbus) \cup Live(sources.xdg)) :
              ~IsRegistered(src)
        /\ (\A src \in Live(sources.dbus) \cup Live(sources.xdg) :
               IsRegistered(src))
             \/ (last.op = "construct" /\ exc # None /\ AbortedEarly)
        /\ (\E src \in Live(sources.dbus) \cup Live(sources.xdg) :
               ~KnownKind(src))
             => (last.op = "construct" /\ exc # None /\ AbortedEarly)
        /\ exc = "UnhandledDataFile" =>
             \E src \in Live(sources.dbus) \cup Live(sources.xdg) :
                ~KnownKind(src)

\* a backup file was passed over, the other sources were registered
C20_Witness ==
    /\ last.op = "construct"
    /\ exc = None
    /\ Found # Live(sources.dbus) \cup Live(sources.xdg)
    /\ \A src \in Live(sources.dbus) \cup Live(sources.xdg) : IsRegistered(src)

(***************************************************************************)
(* Specification of a FileSetup whose root prefix changes: files are       *)
(* constructed under one prefix, init_dirs() may set another one at any    *)
(* time, and install() and uninstall() run in between.                     *)
(***************************************************************************)

\* the files registered at construction
PrefixFiles ==
    { StringToFile("/a/file2", "X\nY\n", None),
      CopyFile("/a/file10", "/pkg/data/xdg/icon.svg", None),
      TemplateFile("/b/c/x.service", "/pkg/data/dbus-1/x.service",
                   TemplateData, None) }

\* the filesystems a run may start from: / and /r exist, each writable or
\* not; /a and /r/a are missing, or writable directories in which file2
\* may already lie
PrefixTrees ==
    LET tree(w, wr, a, f2, ra, rf2) ==
            [p \in FsPaths |->
                IF p = "/" THEN DirNode(w)
                ELSE IF p = "/r" THEN DirNode(wr)
                ELSE IF p = "/a" THEN a
                ELSE IF p = "/a/file2" THEN f2
                ELSE IF p = "/r/a" THEN ra
                ELSE IF p = "/r/a/file2" THEN rf2
                ELSE NoNode]
        below == { <<NoNode, NoNode>>, <<DirNode(TRUE), NoNode>>,
                   <<DirNode(TRUE), OldFile>> }
    IN  { tree(w, wr, x[1], x[2], y[1], y[2]) :
            w \in BOOLEAN, wr \in BOOLEAN, x \in below, y \in below }

InitPrefix ==
    /\ sudo_commands = <<>>
    /\ files \in { <<file>> : file \in PrefixFiles }
    /\ chroot \in ChrootPool
    /\ fs \in PrefixTrees
    /\ WellFormed(fs)
    /\ last = Idle
    /\ calls = NoCalls
    /\ hist = <<>>
    /\ snap = [init |-> fs, first |-> <<>>]
    /\ exc = None
    /\ arg = [built |-> chroot]
    /\ ret = None
    /\ MainIdle

\* init_dirs(chroot): get_dirs().chroot is another prefix from now on
Call_init_dirs ==
    /\ exc = None
    /\ \E ch \in ChrootPool \ {chroot} : chroot' = ch
    /\ last' = [op |-> "init_dirs"]
    /\ UNCHANGED <<sudo_commands, files, fs, calls, hist, snap, exc, arg, ret,
                 mainVars>>

NextPrefix == Call_init_dirs \/ Call_install \/ Call_uninstall

SpecPrefix == InitPrefix /\ [][NextPrefix]_vars

\* f"{prefix}{dst}" for the prefix that is set now
ActivePath(file) ==
    StrOf[(IF chroot = None THEN "" ELSE chroot) \o file.dst]

\* f"{prefix}{dst}" for the prefix that was set when file was constructed
BuiltPath(file) ==
    StrOf[(IF arg.built = None THEN "" ELSE arg.built) \o file.dst]

\* the directories above p
RECURSIVE Above(_)
Above(p) ==
    IF Path_parent(p) = p THEN {}
    ELSE {Path_parent(p)} \cup Above(Path_parent(p))

\* the paths a step changed
Touched == { p \in DOMAIN fs : fs'[p] # fs[p] }

\* the step is an install() or an uninstall() of the registered files
SetupStep == hist' # hist

\* the step did its work itself: nothing raised, nothing deferred
DirectStep == SetupStep /\ exc' = None /\ sudo_commands' = sudo_commands

\* C21: every direct filesystem action of a file goes to the destination
\* below the root prefix that is set when _install() or _uninstall() runs:
\* a step changes only that path and the directories above it, a direct
\* install leaves the file there with its payload and mode 0644 and a direct
\* uninstall leaves no file there, and when the prefix differs from the one
\* at construction the path below the old prefix and its directory stay as
\* they were.
C21_ActsBelowActivePrefix ==
    [][SetupStep =>
        \A i \in 1..Len(files) :
            /\ Touched \subseteq
                 {ActivePath(files[i])} \cup Above(ActivePath(files[i]))
            /\ DirectStep /\ last'.op = "install" =>
                 /\ IsFile(fs', ActivePath(files[i]))
                 /\ fs'[ActivePath(files[i])].mode = InstalledMode
                 /\ fs'[ActivePath(files[i])].content
                      = IF files[i].cls = "CopyFile"
                        THEN SrcFiles[files[i].src].content
                        ELSE files[i].content
            /\ DirectStep /\ last'.op = "uninstall" =>
                 /\ Exists(fs, ActivePath(files[i]))
                 /\ ~Exists(fs', ActivePath(files[i]))
            /\ chroot # arg.built =>
                 /\ fs'[BuiltPath(files[i])] = fs[BuiltPath(files[i])]
                 /\ fs'[Path_parent(BuiltPath(files[i]))]
                      = fs[Path_parent(BuiltPath(files[i]))]]_vars

\* the prefix changed after construction, then an install() wrote the file
\* below the new prefix while a file lay below the old one, and an
\* uninstall() deleted it again
C21_Witness ==
    /\ chroot # arg.built
    /\ hist = <<"install", "uninstall">>
    /\ exc = None
    /\ sudo_commands = <<>>
    /\ IsFile(snap.first, ActivePath(files[1]))
    /\ ~Exists(snap.init, ActivePath(files[1]))
    /\ ~Exists(fs, ActivePath(files[1]))
    /\ IsFile(fs, BuiltPath(files[1]))

(***************************************************************************)
(* The end of main()                                                       *)
(***************************************************************************)

\* everything.install() / uninstall() returned and main() ran to its end
\* without an exception
Completed == pc = "exit" /\ last.op = "script" /\ exc = None

\* the program's last message says that nothing is left over
StatedNothingLeft ==
    /\ log # <<>>
    /\ log[Len(log)] = <<"print", "No commands left over to run with sudo. Good.">>

\* the script of the queued commands went to the operator: to the file
\* --sudo-script names, or to the standard output
Rendered ==
    /\ out = SudoScript_write(sudo_commands)
    /\ arg.sudo_script \notin {None, "", "-"} =>
         /\ IsFile(fs, arg.sudo_script)
         /\ fs[arg.sudo_script].content = out

\* C22: a run of main() that completes without a fatal error and with no
\* command to run says that nothing is left over and exits with status 0;
\* one that completes with a command to run has rendered the script for
\* the operator.
C22_DeferredWorkIsPresented ==
    Completed =>
        IF needs_to_run(sudo_commands)
        THEN Rendered
        ELSE StatedNothingLeft /\ ret = <<0>>

(***************************************************************************)
(* Specification of one file that is written twice from the same           *)
(* filesystem: by direct_install(), and by root running the fragment that  *)
(* shell_install() returns.  The payloads hold no character that a         *)
(* here-document expands ($, backquote, backslash).                        *)
(***************************************************************************)

\* the payloads of a StringToFile: lines that end in a newline, a last
\* line without one, no text at all, an empty line, a line that reads EOF
ContentPool ==
    {"X\nY\n", "X\nY", "X", "", "X\n\nY\n", "X\nEOF\nY\n", "EOF\n"}

\* the sources of a TemplateFile
TemplatePool ==
    {"/pkg/data/dbus-1/x.service", "/pkg/data/dbus-1/n.service",
     "/pkg/data/dbus-1/e.service"}

HereDocFiles ==
    { StringToFile("/a/file2", c, None) : c \in ContentPool }
    \cup { TemplateFile("/a/file2", src, TemplateData, None) :
             src \in TemplatePool }

InitHereDoc ==
    /\ sudo_commands = <<>>
    /\ files \in { <<file>> : file \in HereDocFiles }
    /\ chroot = None
    /\ fs \in InitialTrees("")
    /\ WellFormed(fs)
    /\ last = Idle
    /\ calls = NoCalls
    /\ hist = <<>>
    /\ snap = [init |-> fs, first |-> <<>>]
    /\ exc = None
    /\ arg = None
    /\ ret = <<>>
    /\ MainIdle

\* what direct_install(), which returned r, leaves behind
Directly(r) ==
    /\ fs' = r.fs
    /\ exc' = r.err
    /\ hist' = Append(hist, "direct_install")
    /\ last' = [op |-> "direct_install"]
    /\ UNCHANGED <<sudo_commands, files, chroot, calls, snap, arg, ret,
                   mainVars>>

\* files[1].direct_install()
Call_direct_install ==
    /\ hist = <<>>
    /\ Directly(direct_install(files[1], chroot_dst(files[1], chroot), fs))

\* files[1].shell_install(): the fragment is kept in `out`
Call_shell_install ==
    /\ out = None
    /\ out' = shell_install(files[1])
    /\ last' = [op |-> "shell_install"]
    /\ UNCHANGED <<sudo_commands, files, fs, chroot, calls, hist, snap, exc,
                   arg, ret, everything, log, pc, sources, timeout>>

\* root runs the fragment on the filesystem the run started from
Run_fragment ==
    /\ out # None
    /\ ret = <<>>
    /\ ret' = <<sh_run(out, snap.init)>>
    /\ last' = [op |-> "sh"]
    /\ UNCHANGED <<sudo_commands, files, fs, chroot, calls, hist, snap, exc,
                   arg, mainVars>>

NextHereDoc == Call_direct_install \/ Call_shell_install \/ Run_fragment

SpecHereDoc == InitHereDoc /\ [][NextHereDoc]_vars

\* direct_install() wrote the file, and the fragment has been run
BothWritten == hist = <<"direct_install">> /\ exc = None /\ ret # <<>>

\* C23: for every StringToFile and TemplateFile payload, running the
\* fragment of shell_install() leaves the destination with exactly the
\* content that direct_install() writes.
C23_FragmentWritesSameContent ==
    BothWritten =>
        /\ ContentAt(fs, files[1].dst) = files[1].content
        /\ ContentAt(ret[1].fs, files[1].dst) = ContentAt(fs, files[1].dst)

(***************************************************************************)
(* Runs with a root prefix                                                 *)
(***************************************************************************)

\* the positions of the service-control calls in the log: NameHasOwner,
\* get, Shutdown and StartServiceByName on either bus
ServiceCalls(l) ==
    { i \in 1..Len(l) : l[i][1] \in {"SessionBus", "SystemBus"} }

\* the comments of the commands remove_obsolete_files queues
ObsoleteComments ==
    {"Remove obsolete state directory (if empty)",
     "Remove obsolete system D-Bus service config and script files (from pre-0.5.0)"}

\* C25: a run with --chroot makes no service-control call on the session
\* or the system bus, in install and in uninstall, and queues no command
\* that cleans up an obsolete install.
C25_ChrootRunsTouchNoService ==
    Truthy(arg.chroot) =>
        /\ ServiceCalls(log) = {}
        /\ \A i \in 1..Len(sudo_commands) :
               sudo_commands[i].comment \notin ObsoleteComments

\* an install into a root prefix ran through all five subsystems, on a
\* system that holds the obsolete state directory
C25_Witness ==
    /\ Truthy(arg.chroot)
    /\ arg.install
    /\ pc = "exit"
    /\ ret = <<0>>
    /\ Len(hist) = 5
    /\ IsDir(fs, old_statedir)
    /\ \E i \in 1..Len(log) : log[i] = <<"install", "SetupDBus">>
    /\ \E i \in 1..Len(log) : log[i] = <<"install", "SetupObsoleteInstall">>

(***************************************************************************)
(* The order of events in SetupDBus.install() and SetupDBus.uninstall()    *)
(***************************************************************************)

\* the log entries that mark the call of a subsystem
IsMarker(e) == e[1] \in {"install", "uninstall"}

\* the positions of the log that belong to the call of SetupDBus: from its
\* marker to the marker of the next subsystem
DBusSegment(l) ==
    { i \in 1..Len(l) :
        \E d \in 1..(i - 1) :
            /\ l[d] \in {<<"install", "SetupDBus">>, <<"uninstall", "SetupDBus">>}
            /\ \A j \in (d + 1)..i : ~IsMarker(l[j]) }

\* in it: the service files written, deferred or deleted, the Shutdown
\* calls and the activation attempts
DBusFileEvents(l) ==
    { i \in DBusSegment(l) : l[i][1] \in {"_install", "_uninstall"} }
DBusShutdowns(l) ==
    { i \in DBusSegment(l) : l[i] = <<"SessionBus", "Shutdown">> }
DBusAttempts(l) ==
    { i \in DBusSegment(l) : l[i] = <<"SessionBus", "StartServiceByName">> }

\* a Shutdown that no activation attempt precedes stops the old service
StopsOld(l, s) == \A t \in DBusAttempts(l) : s < t

\* the order of the events logged so far
DBusOrder(l) ==
    /\ \A s \in DBusShutdowns(l) :
           StopsOld(l, s) => \A f \in DBusFileEvents(l) : s < f
    /\ \A t \in DBusAttempts(l) : \A f \in DBusFileEvents(l) : f < t
    /\ DBusAttempts(l) # {} =>
           Cardinality(DBusFileEvents(l)) = Len(everything[3].files)
    /\ \A s \in DBusShutdowns(l) :
           ~StopsOld(l, s) =>
               /\ l[s - 1] = <<"SessionBus", "get">>
               /\ l[s - 2] = <<"SessionBus", "StartServiceByName">>

\* C26: in SetupDBus.install() with launching enabled a running old
\* service is shut down before the first service file is written or
\* deferred, StartServiceByName is attempted only after every service file
\* was processed, and the started service is shut down only in the step in
\* which an attempt succeeded; in SetupDBus.uninstall() a running service
\* is shut down before any service file is deleted.
C26_DBusEventOrder ==
    /\ [](DBusOrder(log))
    /\ [][(\E s \in DBusShutdowns(log') :
              s > Len(log) /\ ~StopsOld(log', s)) =>
            /\ last'.op = "StartServiceByName"
            /\ last'.raises = None]_vars

\* an install with launching enabled found the old service running, wrote
\* or deferred two service files, failed to activate the service once,
\* succeeded then and shut the service down
C26_Witness ==
    /\ pc = "exit"
    /\ ret = <<0>>
    /\ arg.install
    /\ ~arg.no_launch
    /\ Cardinality(DBusFileEvents(log)) = 2
    /\ Cardinality(DBusAttempts(log)) >= 2
    /\ Cardinality(DBusShutdowns(log)) = 2
    /\ \E s \in DBusShutdowns(log) : StopsOld(log, s)

====
